---- MODULE Spec2Model ----
(***************************************************************************)
(* A model of parsers_lib: the grammar data model, the FIRST_k engine, the *)
(* canonical LR(k) collection (V_G^k), the LR(k) table compiler, the LR    *)
(* driver over a peekable stream, and the Earley recognizer.               *)
(*                                                                         *)
(* A token is a Python str, modelled as the sequence of its characters:    *)
(* "a" is <<"a">>, the EOF sentinel "" is <<>>.  A nonterminal's name is   *)
(* kept the same way.  A FIRST_k tuple / lookahead is a sequence of tokens.*)
(***************************************************************************)
EXTENDS Integers, Sequences, FiniteSets, TLC

\* ------------------------------------------------------------------ bounds
\* longest token sequence handed to feed()
MaxLen == 3
\* the LR driver's stack is cut at this depth (a re-iterable source never ends)
MaxStack == 10
\* parse() calls since the last feed() are counted up to this number
MaxCalls == 2

\* ------------------------------------------------------------ small helpers
Min(a, b) == IF a <= b THEN a ELSE b

\* Python's s[:n] for n >= 0
Take(s, n) == SubSeq(s, 1, Min(n, Len(s)))

\* Python's s[n:] (n counted from 0)
Drop(s, n) == SubSeq(s, n + 1, Len(s))

\* every sequence over S of length at most n
SeqsUpTo(S, n) == UNION {[1..m -> S] : m \in 0..n}

\* ------------------------------------------------------------ grammar.py
new_start_name == <<"__new_start__">>

Nonterminal(name) == [kind |-> "nt", v |-> name]

StrTerminal(value) == [kind |-> "str", v |-> value]

\* a terminal of another subclass of Terminal than StrTerminal
Terminal(value) == [kind |-> "term", v |-> value]

is_terminal(symbol) == symbol.kind # "nt"

get_token(symbol) == symbol.v

\* Terminal.matches: self.value == token
matches(symbol, token) == symbol.v = token

Rule(lhs, rhs) == [lhs |-> lhs, rhs |-> rhs]

\* Rule.get_nonterminals: the lhs and every nonterminal of the rhs
get_nonterminals(rule) ==
    {rule.lhs} \cup {rule.rhs[i] : i \in {j \in 1..Len(rule.rhs) : ~is_terminal(rule.rhs[j])}}

\* Grammar.__init__: the rule set, the nonterminal map built from the rules'
\* left-hand sides only, and the start name; new_start is not generated yet.
\* The map name -> Nonterminal(name) is kept as the set of its names.
Grammar(rules, start) ==
    [rules |-> rules,
     nonterminals |-> {r.lhs.v : r \in rules},
     start |-> start,
     has_new_start |-> FALSE]

has_nonterminal(g, name) == name \in g.nonterminals

\* Grammar.add_rule: ensure_nonterminal for every nonterminal of the rule,
\* then insert the rule
add_rule(g, rule) ==
    [g EXCEPT !.nonterminals = @ \cup {n.v : n \in get_nonterminals(rule)},
              !.rules = @ \cup {rule}]

\* Grammar.ensure_nonterminal / add_nonterminal: register the name unless it is
\* registered already
ensure_nonterminal(g, name) ==
    IF has_nonterminal(g, name) THEN g ELSE [g EXCEPT !.nonterminals = @ \cup {name}]

\* Grammar.resolve_nonterminal raises KeyError exactly when this is false
can_resolve(g, name) == has_nonterminal(g, name)

\* new_start as a plain property: every access runs the body again
new_start_uncached(g) ==
    IF has_nonterminal(g, new_start_name) THEN [g |-> g, err |-> "AssertionError"]
    ELSE IF ~can_resolve(g, g.start) THEN [g |-> g, err |-> "KeyError"]
    ELSE [g |-> [add_rule(g, Rule(Nonterminal(new_start_name), <<Nonterminal(g.start)>>))
                    EXCEPT !.has_new_start = TRUE],
          err |-> "none"]

\* new_start without the assertion on the reserved name
new_start_unchecked(g) ==
    IF g.has_new_start THEN [g |-> g, err |-> "none"]
    ELSE IF ~can_resolve(g, g.start) THEN [g |-> g, err |-> "KeyError"]
    ELSE [g |-> [add_rule(g, Rule(Nonterminal(new_start_name), <<Nonterminal(g.start)>>))
                    EXCEPT !.has_new_start = TRUE],
          err |-> "none"]

\* Grammar.new_start (cached_property): the first access asserts the reserved
\* name is free, resolves the start nonterminal and adds  S' -> S ; later
\* accesses return the cached value.  The result carries the error raised.
new_start(g) ==
    IF g.has_new_start THEN [g |-> g, err |-> "none"]
    ELSE IF has_nonterminal(g, new_start_name) THEN [g |-> g, err |-> "AssertionError"]
    ELSE IF ~can_resolve(g, g.start) THEN [g |-> g, err |-> "KeyError"]
    ELSE [g |-> [add_rule(g, Rule(Nonterminal(new_start_name), <<Nonterminal(g.start)>>))
                    EXCEPT !.has_new_start = TRUE],
          err |-> "none"]

new_start_rule(g) == Rule(Nonterminal(new_start_name), <<Nonterminal(g.start)>>)

\* ------------------------------------------------------- the grammars used
tA == StrTerminal(<<"a">>)
tB == StrTerminal(<<"b">>)
nS == Nonterminal(<<"S">>)
nA == Nonterminal(<<"A">>)
nB == Nonterminal(<<"B">>)
nN == Nonterminal(<<"N">>)

\* tests/lr_test.py "seminar":  S -> S a S b | ""
GSeminar == Grammar({Rule(nS, <<nS, tA, nS, tB>>), Rule(nS, <<>>)}, <<"S">>)
\* S -> a b
GAb == Grammar({Rule(nS, <<tA, tB>>)}, <<"S">>)
\* S -> a S b | ""
GNested == Grammar({Rule(nS, <<tA, nS, tB>>), Rule(nS, <<>>)}, <<"S">>)
\* N has rules but derives no terminal string:  S -> a b N | a b ;  N -> b N
GUnproductive == Grammar({Rule(nS, <<tA, tB, nN>>), Rule(nS, <<tA, tB>>), Rule(nN, <<tB, nN>>)}, <<"S">>)
\* N has no rule at all:  S -> N | a
GUndefined == Grammar({Rule(nS, <<nN>>), Rule(nS, <<tA>>)}, <<"S">>)
\* tests/parser_test_base.py "brackets":  S -> a S b | S S | ""
GBrackets == Grammar({Rule(nS, <<tA, nS, tB>>), Rule(nS, <<nS, nS>>), Rule(nS, <<>>)}, <<"S">>)
\* a unit cycle:  S -> S | a
GCycle == Grammar({Rule(nS, <<nS>>), Rule(nS, <<tA>>)}, <<"S">>)
\* a unit cycle next to a shift-reduce conflict:  S -> S | S a | ""
GCycleShift == Grammar({Rule(nS, <<nS>>), Rule(nS, <<nS, tA>>), Rule(nS, <<>>)}, <<"S">>)
\* two reduces on one lookahead:  S -> A | B ;  A -> a ;  B -> a
GReduceReduce == Grammar({Rule(nS, <<nA>>), Rule(nS, <<nB>>), Rule(nA, <<tA>>), Rule(nB, <<tA>>)}, <<"S">>)
\* nullable twice:  S -> A A ;  A -> ""
GNullable == Grammar({Rule(nS, <<nA, nA>>), Rule(nA, <<>>)}, <<"S">>)
\* LR(2) but not LR(1):  S -> A a a | B a b ;  A -> b ;  B -> b
GLR2 == Grammar({Rule(nS, <<nA, tA, tA>>), Rule(nS, <<nB, tA, tB>>), Rule(nA, <<tB>>), Rule(nB, <<tB>>)}, <<"S">>)
\* indirect recursion as in tests/lr_test.py "indirect_recursion", without its
\* terminator:  S -> A ;  A -> a B | "" ;  B -> b A | ""
GIndirect == Grammar({Rule(nS, <<nA>>), Rule(nA, <<tA, nB>>), Rule(nA, <<>>),
                      Rule(nB, <<tB, nA>>), Rule(nB, <<>>)}, <<"S">>)

\* a parser configuration request: the grammar and the lookahead length k
Configs ==
    {[g |-> GSeminar, k |-> 1], [g |-> GSeminar, k |-> 2],
     [g |-> GAb, k |-> 1], [g |-> GNested, k |-> 1],
     [g |-> GUnproductive, k |-> 2], [g |-> GUndefined, k |-> 1],
     [g |-> GBrackets, k |-> 1], [g |-> GCycle, k |-> 1],
     [g |-> GCycleShift, k |-> 1], [g |-> GReduceReduce, k |-> 1],
     [g |-> GNullable, k |-> 1], [g |-> GLR2, k |-> 1], [g |-> GLR2, k |-> 2],
     [g |-> GIndirect, k |-> 1]}

\* the tokens of the inputs; the EOF sentinel handed to LRParserConfig is ""
Tokens == {<<"a">>, <<"b">>}
eof_token == <<>>
Inputs == SeqsUpTo(Tokens, MaxLen)

\* ------------------------------------------- _lr_parser_helpers.py: FIRST_k
\* The provider's parameters: P.rules (the augmented grammar's rules) and P.k.
FirstKParams(g, k) == [rules |-> g.rules, k |-> k]

\* FirstKProvider.rules_by_lhs[symbol], () when absent
rules_by_lhs(P, symbol) == {r \in P.rules : r.lhs = symbol}

\* a budget of a single repetition
one_repetition(P) == 1

\* FirstKProvider._sufficient_repetitions
sufficient_repetitions(P) == P.k * Cardinality(P.rules)

\* FirstKProvider._set_minkovsky_sum
set_minkovsky_sum(set_a, set_b) == {x \o y : x \in set_a, y \in set_b}

RECURSIVE expand_symbol(_, _, _, _)
RECURSIVE expand_symbol_loop(_, _, _, _)
RECURSIVE do_expand_rules(_, _, _, _)
RECURSIVE expand_sequence_loop(_, _, _, _)

\* the loop body setting the long tuples aside as they are, uncut
expand_sequence_step_uncut(P, result, cur_result, child_set) ==
    LET summed == set_minkovsky_sum(cur_result, child_set)
        long_results == {r \in summed : Len(r) >= P.k}
    IN  [result |-> result \cup long_results,
         cur_result |-> summed \ long_results]

\* the body of the loop of _expand_sequence for one child symbol: the sum with
\* the child's expansion, then every tuple that reached k tokens is trimmed,
\* moved to result and taken out of further propagation
expand_sequence_step(P, result, cur_result, child_set) ==
    LET summed == set_minkovsky_sum(cur_result, child_set)
        long_results == {r \in summed : Len(r) >= P.k}
    IN  [result |-> result \cup {Take(r, P.k) : r \in long_results},
         cur_result |-> summed \ long_results]

\* FirstKProvider._expand_sequence from child i on; acc = [cache, result, cur_result].
\* (Intermediate values are bound through singleton sets, here and below, so
\* that each is computed once.)
expand_sequence_loop(P, acc, rule_symbols, i) ==
    IF i > Len(rule_symbols)
    THEN [cache |-> acc.cache,
          res |-> acc.result \cup {Take(r, P.k) : r \in acc.cur_result}]
    ELSE CHOOSE out \in
           {expand_sequence_loop(P, acc1, rule_symbols, i + 1) : acc1 \in
              {[cache |-> cache1, result |-> st.result, cur_result |-> st.cur_result] :
                 <<cache1, st>> \in
                   {<<c1, expand_sequence_step(P, acc.result, acc.cur_result, c1[rule_symbols[i]])>> :
                      c1 \in {expand_symbol(P, acc.cache, rule_symbols[i], FALSE)}}}} : TRUE

\* FirstKProvider._expand_sequence: [cache |-> the cache afterwards, res |-> the set]
expand_sequence(P, cache, rule_symbols) ==
    expand_sequence_loop(P, [cache |-> cache, result |-> {}, cur_result |-> {<<>>}],
                         rule_symbols, 1)

\* the loop of _do_expand_symbol over the rules of a nonterminal
do_expand_rules(P, cache, rules, result) ==
    IF rules = {} THEN [cache |-> cache, res |-> result]
    ELSE LET rule == CHOOSE r \in rules : TRUE
         IN  CHOOSE out \in
               {do_expand_rules(P, e.cache, rules \ {rule}, result \cup e.res) :
                  e \in {expand_sequence(P, cache, rule.rhs)}} : TRUE

\* FirstKProvider._do_expand_symbol
do_expand_symbol(P, cache, symbol) ==
    IF is_terminal(symbol)
    THEN [cache |-> cache, res |-> {<<get_token(symbol)>>}]
    ELSE do_expand_rules(P, cache, rules_by_lhs(P, symbol), {})

\* the loop "for _ in range(_sufficient_repetitions): result.update(...)"
expand_symbol_loop(P, cache, symbol, n) ==
    IF n = 0 THEN cache
    ELSE CHOOSE out \in
           {expand_symbol_loop(P, c, symbol, n - 1) : c \in
              {[d.cache EXCEPT ![symbol] = @ \cup d.res] :
                 d \in {do_expand_symbol(P, cache, symbol)}}} : TRUE

\* FirstKProvider._expand_symbol: the cache afterwards (the value returned is
\* cache[symbol]).  A symbol whose expansion is in progress is already in the
\* cache, so a nested request returns its partial set.
expand_symbol(P, cache, symbol, explicit) ==
    IF symbol \notin DOMAIN cache \/ explicit
    THEN expand_symbol_loop(P,
             IF symbol \in DOMAIN cache THEN cache ELSE cache @@ (symbol :> {}),
             symbol, sufficient_repetitions(P))
    ELSE cache

\* first_k appending the whole continuation, not what is missing up to k tokens
first_k_whole_continuation(P, cache, rule_symbols, continuation) ==
    {r \o continuation : r \in expand_sequence(P, cache, rule_symbols).res}

\* FirstKProvider.first_k: the set returned (the cache it may extend is dropped:
\* a later call recomputes the same entries)
first_k(P, cache, rule_symbols, continuation) ==
    {r \o Take(continuation, P.k - Len(r)) : r \in expand_sequence(P, cache, rule_symbols).res}

\* every ordering of a finite set, as a sequence
Perms(set) ==
    {f \in [1..Cardinality(set) -> set] : \A i, j \in 1..Cardinality(set) : f[i] = f[j] => i = j}

RECURSIVE prepare_from(_, _, _, _, _)
\* FirstKProvider._prepare from (round, idx) on, over the list `nonterminals`
prepare_from(P, cache, nonterminals, round, idx) ==
    IF round >= sufficient_repetitions(P) THEN cache
    ELSE CHOOSE out \in
           {prepare_from(P, c, nonterminals,
                         IF idx < Len(nonterminals) THEN round ELSE round + 1,
                         IF idx < Len(nonterminals) THEN idx + 1 ELSE 1) :
              c \in {expand_symbol(P, cache, nonterminals[idx], TRUE)}} : TRUE

\* FirstKProvider._prepare
prepare(P, nonterminals) == prepare_from(P, <<>>, nonterminals, 0, 1)

\* ------------------------------------------------- LR items and item sets
\* _lr_parser_helpers.State: an LR(k) item; rule_pos counts from 0 as in the code
State(rule, rule_pos, continuation) ==
    [rule |-> rule, rule_pos |-> rule_pos, continuation |-> continuation]

\* State.get_next_item is None exactly when this is false
has_next_item(state) == state.rule_pos < Len(state.rule.rhs)

get_next_item(state) == state.rule.rhs[state.rule_pos + 1]

shifted(state) == [state EXCEPT !.rule_pos = @ + 1]

\* UpdateableSet: the processed values and the pending ones
UpdateableSet(values, new_values) == [values |-> values, new_values |-> new_values]

\* an add that does not look at the closed part
add_unchecked(us, value) == [us EXCEPT !.new_values = @ \cup {value}]

add(us, value) ==
    IF value \in us.values THEN us ELSE [us EXCEPT !.new_values = @ \cup {value}]

RECURSIVE add_all(_, _)
add_all(us, values) ==
    IF values = {} THEN us
    ELSE LET value == CHOOSE v \in values : TRUE
         IN  CHOOSE out \in {add_all(u, values \ {value}) : u \in {add(us, value)}} : TRUE

has_new(us) == us.new_values # {}

\* UpdateableSet.process when set.pop() yields `value`
process(us, value) ==
    [values |-> us.values \cup {value}, new_values |-> us.new_values \ {value}]

\* UpdateableSet.__iter__ / __len__: both parts
members(us) == us.values \cup us.new_values

Table_initial(start_rule) == UpdateableSet({}, {State(start_rule, 0, <<>>)})

\* Table.freeze (called only when nothing is pending)
freeze(table) == table.values

\* a closure that takes the lookaheads from the dot on, not from behind the
\* nonterminal after the dot
closure_items_from_dot(P, cache, state) ==
    IF ~has_next_item(state) THEN {}
    ELSE IF is_terminal(get_next_item(state)) THEN {}
    ELSE {State(rule, 0, continuation) :
            rule \in rules_by_lhs(P, get_next_item(state)),
            continuation \in first_k(P, cache, Drop(state.rule.rhs, state.rule_pos),
                                     state.continuation)}

\* the items the body of the loop of _complete_table adds for the popped item
closure_items(P, cache, state) ==
    IF ~has_next_item(state) THEN {}
    ELSE IF is_terminal(get_next_item(state)) THEN {}
    ELSE {State(rule, 0, continuation) :
            rule \in rules_by_lhs(P, get_next_item(state)),
            continuation \in first_k(P, cache, Drop(state.rule.rhs, state.rule_pos + 1),
                                     state.continuation)}

\* a loop turn that files the items it brings as already processed, so that
\* they are never popped themselves
complete_table_step_once(P, cache, table, state) ==
    [values |-> table.values \cup {state} \cup closure_items(P, cache, state),
     new_values |-> table.new_values \ {state}]

\* one turn of the loop of VGkBuilder._complete_table, `state` being popped
complete_table_step(P, cache, table, state) ==
    add_all(process(table, state), closure_items(P, cache, state))

RECURSIVE complete_table(_, _, _)
\* VGkBuilder._complete_table, the pending items popped in a fixed order
complete_table(P, cache, table) ==
    IF ~has_new(table) THEN table
    ELSE CHOOSE out \in
           {complete_table(P, cache, t) : t \in
              {complete_table_step(P, cache, table, CHOOSE st \in table.new_values : TRUE)}} : TRUE

\* a goto that moves the dot in one item per symbol only
goto_single(values) ==
    [symbol \in {get_next_item(st) : st \in {s1 \in values : has_next_item(s1)}} |->
        add_all(UpdateableSet({}, {}),
                {shifted(CHOOSE st \in values : has_next_item(st) /\ get_next_item(st) = symbol)})]

\* VGkBuilder._goto: per next symbol, a fresh Table holding the shifted items
goto(values) ==
    [symbol \in {get_next_item(st) : st \in {s1 \in values : has_next_item(s1)}} |->
        add_all(UpdateableSet({}, {}),
                {shifted(st) : st \in {s1 \in values : has_next_item(s1) /\ get_next_item(s1) = symbol}})]

\* a FrozenTable object: its item set and whether it is the object the registry
\* holds (whose gotos build() fills) or an equal copy whose gotos stay empty
FrozenTable(values, registered) == [values |-> values, registered |-> registered]

\* what _add_table does with a completed Table and what its caller does with the
\* object returned: the frozen item set is registered unless an equal one is,
\* and the new object becomes the root (ctx = <<>>) or gotos[ctx[1]] of the
\* item set popped by build
add_table_result(tabs, gts, rt, popped, cx, tbl) ==
    LET frozen_table == freeze(tbl)
        fresh == frozen_table \notin members(tabs)
        gotos1 == IF fresh THEN gts @@ (frozen_table :> <<>>) ELSE gts
    IN  [tables |-> IF fresh THEN add(tabs, frozen_table) ELSE tabs,
         root |-> IF cx = <<>> THEN FrozenTable(frozen_table, fresh) ELSE rt,
         gotos |-> IF cx = <<>> THEN gotos1
                   ELSE [gotos1 EXCEPT ![popped] =
                           (cx[1] :> FrozenTable(frozen_table, fresh)) @@ @]]

RECURSIVE build_gotos(_, _, _, _, _)
\* the for loop of VGkBuilder.build for one popped item set, in a fixed order
build_gotos(P, cache, st, popped, pend) ==
    IF DOMAIN pend = {} THEN st
    ELSE LET symbol == CHOOSE s1 \in DOMAIN pend : TRUE
         IN  CHOOSE out \in
               {build_gotos(P, cache, st1, popped, [s2 \in DOMAIN pend \ {symbol} |-> pend[s2]]) :
                  st1 \in {add_table_result(st.tables, st.gotos, st.root, popped, <<symbol>>, closed) :
                             closed \in {complete_table(P, cache, pend[symbol])}}} : TRUE

RECURSIVE build_loop(_, _, _)
\* the while loop of VGkBuilder.build, the registry popped in a fixed order
build_loop(P, cache, st) ==
    IF ~has_new(st.tables) THEN st
    ELSE LET popped == CHOOSE t \in st.tables.new_values : TRUE
         IN  CHOOSE out \in
               {build_loop(P, cache, st1) :
                  st1 \in {build_gotos(P, cache, [st EXCEPT !.tables = process(@, popped)],
                                       popped, goto(popped))}} : TRUE

\* VGkBuilder.build: the root, the registry and the gotos of its item sets
VGk_build(P, cache, start_rule) ==
    build_loop(P, cache,
               add_table_result(UpdateableSet({}, {}), <<>>, FrozenTable({}, FALSE), {}, <<>>,
                                complete_table(P, cache, Table_initial(start_rule))))

\* ------------------------------------------------------ LR action tables
\* the tagged union Action
Action_shift == [tag |-> "shift"]
Action_reduce(rule) == [tag |-> "reduce", rule |-> rule]
Action_accept == [tag |-> "accept"]

\* LRState: the actions by lookahead tuple, the transitions by symbol or token
LRState(acts, transitions) == [actions |-> acts, transitions |-> transitions]

\* the key under which a raw token (symbol.get_token()) is entered in transitions
TokenKey(token) == [kind |-> "token", v |-> token]

\* the gotos dict of a FrozenTable object: the registry's object has the filled
\* one, an equal copy returned by _add_table has the empty default
gotos_of(gts, vgk) == IF vgk.registered THEN gts[vgk.values] ELSE <<>>

\* a loop turn that takes the lookaheads of a shift from behind the terminal
build_actions_step_behind(P, cache, acts, state) ==
    IF state.rule_pos < Len(state.rule.rhs)
    THEN IF ~is_terminal(state.rule.rhs[state.rule_pos + 1])
         THEN [actions |-> acts, err |-> "none"]
         ELSE LET valid_continuations ==
                      first_k(P, cache, Drop(state.rule.rhs, state.rule_pos + 1), state.continuation)
              IN  IF \E c \in valid_continuations : c \in DOMAIN acts /\ acts[c].tag # "shift"
                  THEN [actions |-> acts, err |-> "LRConflict: Shift-reduce conflict"]
                  ELSE [actions |-> [c \in valid_continuations |-> Action_shift] @@ acts,
                        err |-> "none"]
    ELSE IF state.rule.lhs = Nonterminal(new_start_name) /\ state.continuation = <<>>
    THEN IF state.continuation \in DOMAIN acts
         THEN [actions |-> acts, err |-> "AssertionError: Accept conflicts should be impossible"]
         ELSE [actions |-> (state.continuation :> Action_accept) @@ acts, err |-> "none"]
    ELSE IF state.continuation \in DOMAIN acts
    THEN [actions |-> acts,
          err |-> IF acts[state.continuation].tag = "shift"
                  THEN "LRConflict: Shift-reduce conflict"
                  ELSE "LRConflict: Reduce-reduce conflict"]
    ELSE [actions |-> (state.continuation :> Action_reduce(state.rule)) @@ acts, err |-> "none"]

\* one turn of the loop of LRTablesBuilder._build_actions for the item `state`:
\* the actions dict afterwards, or the exception raised
build_actions_step(P, cache, acts, state) ==
    IF state.rule_pos < Len(state.rule.rhs)
    THEN IF ~is_terminal(state.rule.rhs[state.rule_pos + 1])
         THEN [actions |-> acts, err |-> "none"]
         ELSE LET valid_continuations ==
                      first_k(P, cache, Drop(state.rule.rhs, state.rule_pos), state.continuation)
              IN  IF \E c \in valid_continuations : c \in DOMAIN acts /\ acts[c].tag # "shift"
                  THEN [actions |-> acts, err |-> "LRConflict: Shift-reduce conflict"]
                  ELSE [actions |-> [c \in valid_continuations |-> Action_shift] @@ acts,
                        err |-> "none"]
    ELSE IF state.rule.lhs = Nonterminal(new_start_name) /\ state.continuation = <<>>
    THEN IF state.continuation \in DOMAIN acts
         THEN [actions |-> acts, err |-> "AssertionError: Accept conflicts should be impossible"]
         ELSE [actions |-> (state.continuation :> Action_accept) @@ acts, err |-> "none"]
    ELSE IF state.continuation \in DOMAIN acts
    THEN [actions |-> acts,
          err |-> IF acts[state.continuation].tag = "shift"
                  THEN "LRConflict: Shift-reduce conflict"
                  ELSE "LRConflict: Reduce-reduce conflict"]
    ELSE [actions |-> (state.continuation :> Action_reduce(state.rule)) @@ acts, err |-> "none"]

\* a frame of the recursion of LRTablesBuilder._process: the FrozenTable, the
\* entries of its gotos not yet visited, and the one being visited (if any)
Frame(vgk, todo, visiting) == [vgk |-> vgk, todo |-> todo, visiting |-> visiting]

\* the assignment to lr_state.transitions under the symbol alone
set_transition_symbol_only(lr_state, symbol, target) ==
    [lr_state EXCEPT !.transitions = (symbol :> target) @@ @]

\* the two assignments to lr_state.transitions in _process
set_transition(lr_state, symbol, target) ==
    [lr_state EXCEPT !.transitions =
        IF is_terminal(symbol)
        THEN (symbol :> target) @@ (TokenKey(get_token(symbol)) :> target) @@ @
        ELSE (symbol :> target) @@ @]

RECURSIVE build_actions(_, _, _, _)
\* LRTablesBuilder._build_actions over the items `todo`, visited in a fixed order
build_actions(P, cache, acts, todo) ==
    IF todo = {} THEN [actions |-> acts, err |-> "none"]
    ELSE LET state == CHOOSE st \in todo : TRUE
         IN  CHOOSE out \in
               {IF res.err # "none" THEN res
                ELSE build_actions(P, cache, res.actions, todo \ {state}) :
                  res \in {build_actions_step(P, cache, acts, state)}} : TRUE

\* LRTablesBuilder._state_for: the states dict afterwards, or the exception
state_for(P, cache, sts, vgk) ==
    IF vgk.values \in DOMAIN sts THEN [states |-> sts, err |-> "none"]
    ELSE LET res == build_actions(P, cache, <<>>, vgk.values)
         IN  IF res.err # "none" THEN [states |-> sts, err |-> res.err]
             ELSE [states |-> (vgk.values :> LRState(res.actions, <<>>)) @@ sts, err |-> "none"]

RECURSIVE tables_process(_, _, _, _, _)
RECURSIVE tables_process_gotos(_, _, _, _, _, _)
\* the for loop of LRTablesBuilder._process over the entries `todo` of vgk.gotos
tables_process_gotos(P, cache, gts, sts, vgk, todo) ==
    IF todo = {} THEN [states |-> sts, err |-> "none"]
    ELSE LET symbol == CHOOSE s1 \in todo : TRUE
         IN  CHOOSE out \in
               {IF res.err # "none" THEN res
                ELSE tables_process_gotos(P, cache, gts,
                        [res.states EXCEPT ![vgk.values] =
                            set_transition(@, symbol, gotos_of(gts, vgk)[symbol].values)],
                        vgk, todo \ {symbol}) :
                  res \in {tables_process(P, cache, gts, sts, gotos_of(gts, vgk)[symbol])}} : TRUE

\* LRTablesBuilder._process(vgk)
tables_process(P, cache, gts, sts, vgk) ==
    CHOOSE out \in
      {IF res.err # "none" THEN res
       ELSE tables_process_gotos(P, cache, gts, res.states, vgk, DOMAIN gotos_of(gts, vgk)) :
         res \in {state_for(P, cache, sts, vgk)}} : TRUE

\* LRTablesBuilder.build on a prepared provider: the root item set and the
\* LRState of every item set, or the exception raised
tables_build(P, cache, start_rule) ==
    CHOOSE out \in
      {[root |-> vg.root, tables |-> vg.tables, gotos |-> vg.gotos,
        states |-> res.states, err |-> res.err] :
         <<vg, res>> \in {<<vg1, tables_process(P, cache, vg1.gotos, <<>>, vg1.root)>> :
                            vg1 \in {VGk_build(P, cache, start_rule)}}} : TRUE

\* --------------------------------------------------------- PeekableStream
\* a token source: a one-shot iterator over `data` (what is left of it), a
\* re-iterable sequence `data` (every iter() starts over), or repeat(sentinel)
Source(kind, data) == [kind |-> kind, data |-> data]

RECURSIVE repeat(_, _)
repeat(sentinel, n) == IF n <= 0 THEN <<>> ELSE <<sentinel>> \o repeat(sentinel, n - 1)

\* itertools.islice(source, n) run to its end: the items yielded and the source
\* afterwards
islice(source, n, sentinel) ==
    IF source.kind = "sentinel" THEN [got |-> repeat(sentinel, n), source |-> source]
    ELSE IF source.kind = "list" THEN [got |-> Take(source.data, n), source |-> source]
    ELSE [got |-> Take(source.data, n), source |-> Source("iter", Drop(source.data, n))]

PeekableStream(source, limit, peeked, pos) ==
    [source |-> source, limit |-> limit, peeked |-> peeked, pos |-> pos]

\* a refill that leaves the buffer short once the source has run out
refill_unpadded(stream, sentinel) ==
    LET r == islice(stream.source, stream.limit - Len(stream.peeked), sentinel)
    IN  [stream EXCEPT !.source = r.source, !.peeked = stream.peeked \o r.got]

\* PeekableStream._refill, its one recursive call unfolded
refill(stream, sentinel) ==
    LET r == islice(stream.source, stream.limit - Len(stream.peeked), sentinel)
        peeked1 == stream.peeked \o r.got
    IN  IF Len(peeked1) < stream.limit
        THEN [stream EXCEPT !.source = Source("sentinel", <<>>),
                            !.peeked = peeked1 \o repeat(sentinel, stream.limit - Len(peeked1))]
        ELSE [stream EXCEPT !.source = r.source, !.peeked = peeked1]

\* PeekableStream.__init__
PeekableStream_init(source, limit, sentinel) ==
    refill(PeekableStream(source, limit, <<>>, 0), sentinel)

\* a next() that hands out the first buffered token and leaves it in the buffer
next_keeping(stream, sentinel) ==
    [result |-> Head(stream.peeked), stream |-> [stream EXCEPT !.pos = @ + 1]]

\* PeekableStream.next: the token returned and the stream afterwards
next(stream, sentinel) ==
    [result |-> Head(stream.peeked),
     stream |-> [refill([stream EXCEPT !.peeked = Tail(@)], sentinel) EXCEPT !.pos = @ + 1]]

\* PeekableStream.peek(cnt), cnt <= limit
peek(stream, cnt) == Take(stream.peeked, cnt)

RECURSIVE strip_eof(_, _)
\* the while loop of LRParser._lookahead
strip_eof(result, sentinel) ==
    IF result # <<>> /\ result[Len(result)] = sentinel
    THEN strip_eof(SubSeq(result, 1, Len(result) - 1), sentinel)
    ELSE result

\* LRParser._lookahead
lookahead(stream, kk, sentinel) == strip_eof(peek(stream, kk), sentinel)

\* ------------------------------------------------------- the LR driver
NoStream == PeekableStream(Source("sentinel", <<>>), 0, <<>>, 0)

\* a feed that keeps a stack left over from an earlier parse
feed_stack_kept(old_stack, rt) ==
    IF old_stack = <<>>
    THEN <<[symbol |-> Nonterminal(new_start_name), state |-> rt.values]>>
    ELSE old_stack

\* LRParser.feed: self._stack = [(start_nonterm, root_table)], whatever it was
feed_stack(old_stack, rt) ==
    <<[symbol |-> Nonterminal(new_start_name), state |-> rt.values]>>

\* an LRParser's own state: _source (whether the attribute exists, and the
\* stream), _stack, and what its parse() has returned or raised ("none" while
\* it has not)
Driver(source, stk, result) == [source |-> source, stack |-> stk, result |-> result]

\* a loop turn that uses up the action it has followed
lr_parse_step_consuming(sts, kk, drv) ==
    IF drv.stack = <<>> \/ drv.stack[Len(drv.stack)].state \notin DOMAIN sts
    THEN [config |-> sts, drv |-> [drv EXCEPT !.result = "AssertionError: Shouldn't be reachable"]]
    ELSE LET top == drv.stack[Len(drv.stack)].state
             preview == lookahead(drv.source.stream, kk, eof_token)
         IN  IF preview \notin DOMAIN sts[top].actions
             THEN [config |-> sts,
                   drv |-> [drv EXCEPT !.result = "false", !.source.present = FALSE]]
             ELSE IF sts[top].actions[preview].tag = "accept"
             THEN [config |-> sts,
                   drv |-> [drv EXCEPT !.result = "true", !.source.present = FALSE]]
             ELSE [config |-> [sts EXCEPT ![top].actions =
                                  [u \in DOMAIN @ \ {preview} |-> @[u]]],
                   drv |-> [drv EXCEPT !.result = "false", !.source.present = FALSE]]

\* one turn of the while loop of LRParser._parse on the states dict `sts` of
\* the config (which no statement of _parse assigns to) and the parser's own
\* state: both afterwards; drv.result is "none" while the loop goes on
lr_parse_step(sts, kk, drv) ==
    IF drv.stack = <<>>
    THEN [config |-> sts, drv |-> [drv EXCEPT !.result = "AssertionError: Shouldn't be reachable"]]
    ELSE LET cur_state == sts[drv.stack[Len(drv.stack)].state]
             preview == lookahead(drv.source.stream, kk, eof_token)
         IN  IF preview \notin DOMAIN cur_state.actions
             THEN [config |-> sts,
                   drv |-> [drv EXCEPT !.result = "false", !.source.present = FALSE]]
             ELSE IF cur_state.actions[preview].tag = "accept"
             THEN [config |-> sts,
                   drv |-> [drv EXCEPT !.result = "true", !.source.present = FALSE]]
             ELSE IF cur_state.actions[preview].tag = "shift"
             THEN LET r == next(drv.source.stream, eof_token)
                      ch == r.result
                  IN  IF TokenKey(ch) \in DOMAIN cur_state.transitions
                      THEN [config |-> sts,
                            drv |-> [drv EXCEPT
                                       !.source.stream = r.stream,
                                       !.stack = Append(@, [symbol |-> TokenKey(ch),
                                                            state |-> cur_state.transitions[TokenKey(ch)]])]]
                      ELSE [config |-> sts,
                            drv |-> [drv EXCEPT !.source.stream = r.stream, !.result = "KeyError"]]
             ELSE LET rule == cur_state.actions[preview].rule
                      left == Len(drv.stack) - Len(rule.rhs)
                  IN  IF left <= 0
                      THEN [config |-> sts,
                            drv |-> [drv EXCEPT !.stack = <<>>, !.result = "IndexError"]]
                      ELSE IF rule.lhs \notin DOMAIN sts[drv.stack[left].state].transitions
                      THEN [config |-> sts,
                            drv |-> [drv EXCEPT !.stack = SubSeq(@, 1, left), !.result = "KeyError"]]
                      ELSE [config |-> sts,
                            drv |-> [drv EXCEPT !.stack =
                                       Append(SubSeq(@, 1, left),
                                              [symbol |-> rule.lhs,
                                               state |-> sts[drv.stack[left].state].transitions[rule.lhs]])]]

\* LRParser.feed on the parser state drv
lr_feed(drv, rt, kk, source) ==
    Driver([present |-> TRUE, stream |-> PeekableStream_init(source, kk, eof_token)],
           feed_stack(drv.stack, rt), "none")

RECURSIVE lr_parse(_, _, _, _)
\* LRParser._parse run for at most n turns and while the stack is below MaxStack
lr_parse(sts, kk, drv, n) ==
    IF drv.result # "none" \/ n = 0 \/ Len(drv.stack) >= MaxStack THEN drv
    ELSE CHOOSE out \in {lr_parse(sts, kk, d, n - 1) : d \in {lr_parse_step(sts, kk, drv).drv}} : TRUE

\* feed(source) and parse() on a parser just created from the config
lr_alone(sts, rt, kk, source) ==
    lr_parse(sts, kk, lr_feed(Driver([present |-> FALSE, stream |-> NoStream], <<>>, "none"),
                              rt, kk, source), 4 * MaxStack).result

\* ---------------------------------------------------------- Earley items
\* earleay_parser.State: an Earley item; rule_pos and start_offset count from 0
EarleyState(rule, rule_pos, start_offset) ==
    [rule |-> rule, rule_pos |-> rule_pos, start_offset |-> start_offset]

\* earleay_parser.Table: a chart position, its closed and its pending items
EarleyTable(sts, new_states) == [states |-> sts, new_states |-> new_states]

EarleyTable_initial(start_rule) == EarleyTable({}, {EarleyState(start_rule, 0, 0)})

add_state(tbl, state) ==
    IF state \in tbl.states THEN tbl ELSE [tbl EXCEPT !.new_states = @ \cup {state}]

RECURSIVE add_states(_, _)
add_states(tbl, sts) ==
    IF sts = {} THEN tbl
    ELSE LET state == CHOOSE st \in sts : TRUE
         IN  CHOOSE out \in {add_states(t, sts \ {state}) : t \in {add_state(tbl, state)}} : TRUE

has_new_states(tbl) == tbl.new_states # {}

\* process_state reading an item of the pending set without taking it out
process_state_peek(tbl, state) ==
    [states |-> tbl.states \cup {state}, new_states |-> tbl.new_states]

\* Table.process_state when set.pop() yields `state`
process_state(tbl, state) ==
    [states |-> tbl.states \cup {state}, new_states |-> tbl.new_states \ {state}]

is_successful(tbl, start_rule) ==
    \E state \in tbl.states : state.rule = start_rule /\ state.rule_pos = Len(state.rule.rhs)

\* EarleyParser._complete(state) on the chart `tbls`, whose current table is
\* the last but one: the chart afterwards
complete(tbls, state) ==
    LET origin == tbls[state.start_offset + 1]
        moved == {shifted(prev_state) :
                    prev_state \in {p \in origin.states \cup origin.new_states :
                                      has_next_item(p) /\ get_next_item(p) = state.rule.lhs}}
    IN  [tbls EXCEPT ![Len(tbls) - 1] = add_states(@, moved)]

RECURSIVE earley_step(_)
\* the while loop of EarleyParser._step on the chart `tbls` (the new Table
\* appended already), the pending items popped in a fixed order: the chart
\* afterwards and the exception raised, "none" if none
earley_step(tbls) ==
    IF ~has_new_states(tbls[Len(tbls) - 1]) THEN [tables |-> tbls, result |-> "none"]
    ELSE LET state == CHOOSE st \in tbls[Len(tbls) - 1].new_states : TRUE
             popped == [tbls EXCEPT ![Len(tbls) - 1] = process_state(@, state)]
         IN  IF ~has_next_item(state)
             THEN CHOOSE out \in {earley_step(t) : t \in {complete(popped, state)}} : TRUE
             ELSE [tables |-> popped, result |-> "AttributeError: no attribute 'isTerminal'"]

RECURSIVE earley_parse(_, _, _)
\* EarleyParser.parse on an initialized parser: _step per token of `data`, then
\* _step(None) and the verdict
earley_parse(start_rule, data, tbls) ==
    LET r == earley_step(Append(tbls, EarleyTable({}, {})))
    IN  IF r.result # "none" THEN r
        ELSE IF data # <<>> THEN earley_parse(start_rule, Tail(data), r.tables)
        ELSE [tables |-> r.tables,
              result |-> IF is_successful(r.tables[Len(r.tables) - 1], start_rule)
                         THEN "true" ELSE "false"]

\* feed(source) and parse() on a parser just created from the config
earley_alone(start_rule, data) ==
    earley_parse(start_rule, data, <<EarleyTable_initial(start_rule)>>).result

RECURSIVE split_symbols_keep_short(_)
\* a split that leaves every string of at most one character as it is
split_symbols_keep_short(rhs) ==
    IF rhs = <<>> THEN <<>>
    ELSE IF is_terminal(Head(rhs)) /\ Head(rhs).kind # "str"
         THEN split_symbols_keep_short(Tail(rhs))
    ELSE IF ~is_terminal(Head(rhs)) \/ Len(Head(rhs).v) <= 1
         THEN <<Head(rhs)>> \o split_symbols_keep_short(Tail(rhs))
    ELSE [i \in 1..Len(Head(rhs).v) |-> StrTerminal(<<Head(rhs).v[i]>>)]
             \o split_symbols_keep_short(Tail(rhs))

RECURSIVE split_symbols(_)
\* the inner loop of Grammar.split_long_terminals over one right-hand side: a
\* StrTerminal becomes one StrTerminal per character (none for the empty
\* string); at a terminal that is no StrTerminal the loop continues with
\* nothing appended
split_symbols(rhs) ==
    IF rhs = <<>> THEN <<>>
    ELSE IF ~is_terminal(Head(rhs)) THEN <<Head(rhs)>> \o split_symbols(Tail(rhs))
    ELSE IF Head(rhs).kind # "str" THEN split_symbols(Tail(rhs))
    ELSE [i \in 1..Len(Head(rhs).v) |-> StrTerminal(<<Head(rhs).v[i]>>)] \o split_symbols(Tail(rhs))

\* Grammar.split_long_terminals: the new grammar (the receiver's new_start is
\* generated by the caller's model, see EarleyParserConfig_init)
split_long_terminals(g) ==
    LET kept == {r \in g.rules : r.lhs # Nonterminal(new_start_name)}
        rules1 == {Rule(r.lhs, split_symbols(r.rhs)) : r \in kept}
    IN  [rules |-> rules1,
         nonterminals |-> UNION {{n.v : n \in get_nonterminals(r)} : r \in rules1},
         start |-> g.start, has_new_start |-> FALSE]

\* ------------------------------------------------------------------ state
VARIABLES
    g_call,     \* the last call made on the Grammar object itself: op, err, value, cached, new_grammar
    grammar,    \* the Grammar object handed to the parser configs
    k,          \* the lookahead length handed to LRParserConfig
    pc,         \* where the construction of the LR config stands
    cache,      \* FirstKProvider._symbol_expansion_cache
    order,      \* _prepare: the list `nonterminals` (dict order of the grammar's map)
    round,      \* _prepare: rounds of the outer loop done
    idx,        \* _prepare: position in `nonterminals` of the next symbol
    query,      \* the last first_k call: its arguments and the set returned
    table,      \* VGkBuilder._complete_table: the Table being closed
    tables,     \* VGkBuilder._tables: the registry of frozen item sets
    gotos,      \* the gotos dict of every registered FrozenTable, by item set
    root,       \* VGkBuilder.build: the root FrozenTable
    cur,        \* VGkBuilder.build: the item set popped from the registry
    pending,    \* VGkBuilder.build: the entries of _goto(table) not yet visited
    ctx,        \* the goto symbol the Table being closed belongs to, <<>> for the root
    states,     \* LRTablesBuilder._states: the LRState of every item set seen
    stack,      \* the frames of the recursion of LRTablesBuilder._process
    items,      \* _build_actions: the items of vgk.values not yet visited
    actions,    \* _build_actions: the actions dict being filled
    err,        \* the exception the construction ended with, "none" if none
    input,      \* the token sequence the caller hands to feed
    kind,       \* how: "iter" a one-shot iterator, "list" a re-iterable sequence; "none" before the caller has settled it
    busy,       \* whose parse() is running: "none", "lr" or "earley"
    lr_source,  \* LRParser._source: whether the attribute exists, and the stream
    lr_stack,   \* LRParser._stack
    lr_result,  \* what the last LRParser.parse() since feed returned or raised
    lr_consumed,      \* the tokens PeekableStream.next has handed to the driver since feed
    lr_fed,           \* whether LRParser.feed has ever been called
    lr_calls,         \* the calls of LRParser.parse since the last feed (or construction)
    earley_fed,       \* whether EarleyParser.feed has ever been called
    earley_calls,     \* the calls of EarleyParser.parse since the last feed (or construction)
    earley_config,    \* EarleyParserConfig: start_rule and the rules, once built
    earley_source,    \* EarleyParser._source: whether the attribute exists, and the source
    earley_iter,      \* parse: the iterator of the for loop over _source
    earley_tables,    \* EarleyParser._tables
    earley_tok,       \* _step: its argument, <<tok>>, or <<>> for None
    earley_phase,     \* parse: "idle", "loop" (between steps), "step" or "last" (_step(None))
    earley_result,    \* what the last EarleyParser.parse() since feed returned or raised
    fed,        \* per parser, the iterable last handed to its feed: <<kind, tokens>>, <<>> before
    config2,    \* a second LRParserConfig of the same grammar, with a k of its own
    other,      \* a second LRParser: the config it was created from, its own _source and _stack; the iterable its last feed was given, and whether the feed before was given another
    ret         \* the last call on a PeekableStream or worklist container used on its own: the operation, its argument and what it returned

gvars == <<grammar, k>>
fkvars == <<cache, order, round, idx>>
vgvars == <<table, tables, gotos, root, cur, pending, ctx>>
tbvars == <<states, stack, items, actions, err>>
hvars == <<input, kind, busy>>
lrvars == <<lr_source, lr_stack, lr_result, lr_consumed, lr_fed, lr_calls>>
evars == <<earley_config, earley_source, earley_iter, earley_tables, earley_tok,
           earley_phase, earley_result, earley_fed, earley_calls>>
xvars == <<fed, config2, other, ret>>
pvars == <<hvars, lrvars, evars, xvars>>
vars == <<g_call, grammar, k, pc, cache, order, round, idx, query,
          table, tables, gotos, root, cur, pending, ctx,
          states, stack, items, actions, err,
          input, kind, busy, lr_source, lr_stack, lr_result, lr_consumed,
          lr_fed, lr_calls,
          earley_config, earley_source, earley_iter, earley_tables, earley_tok,
          earley_phase, earley_result, earley_fed, earley_calls,
          fed, config2, other, ret>>

\* nothing has been called on the Grammar object since its construction
NoCall == [op |-> "__init__", err |-> "none", value |-> <<>>, cached |-> FALSE,
           new_grammar |-> Grammar({}, <<>>)]

NoQuery == [seq |-> <<>>, cont |-> <<>>, res |-> {}, asked |-> FALSE]

Params == FirstKParams(grammar, k)

\* the nonterminals registered in the grammar's map
registered(g) == {Nonterminal(n) : n \in g.nonterminals}

NoFed == [lr |-> <<>>, earley |-> <<>>]

NoConfig2 == [built |-> FALSE, k |-> 0, root |-> FrozenTable({}, FALSE), states |-> <<>>,
              err |-> "none"]

\* no second LRParser has been created
NoOther == [exists |-> FALSE, config |-> "none",
            drv |-> Driver([present |-> FALSE, stream |-> NoStream], <<>>, "none"),
            fed |-> FALSE, calls |-> 0, busy |-> FALSE, given |-> <<>>, refed |-> FALSE]

\* nothing has been called on a stream or worklist container used on its own
NoRet == [op |-> "none", arg |-> <<>>, value |-> <<>>]

\* no parser has been fed and no parse is running
InitParsers ==
    /\ busy = "none"
    /\ lr_source = [present |-> FALSE, stream |-> NoStream]
    /\ lr_stack = <<>>
    /\ lr_result = "none"
    /\ lr_consumed = <<>>
    /\ lr_fed = FALSE
    /\ lr_calls = 0
    /\ earley_fed = FALSE
    /\ earley_calls = 0
    /\ earley_config = [built |-> FALSE, start_rule |-> Rule(nS, <<>>), rules |-> {}]
    /\ earley_source = [present |-> FALSE, source |-> Source("sentinel", <<>>)]
    /\ earley_iter = Source("sentinel", <<>>)
    /\ earley_tables = <<>>
    /\ earley_tok = <<>>
    /\ earley_phase = "idle"
    /\ earley_result = "none"
    /\ fed = NoFed
    /\ config2 = NoConfig2
    /\ other = NoOther
    /\ ret = NoRet

\* the state before anything is built, for a request taken from `requests`
InitConfigOf(requests) ==
    /\ \E c \in requests : grammar = c.g /\ k = c.k
    /\ pc = "new"
    /\ cache = <<>>
    /\ order = <<>>
    /\ round = 0
    /\ idx = 1
    /\ query = NoQuery
    /\ table = UpdateableSet({}, {})
    /\ tables = UpdateableSet({}, {})
    /\ gotos = <<>>
    /\ root = FrozenTable({}, FALSE)
    /\ cur = {}
    /\ pending = <<>>
    /\ ctx = <<>>
    /\ states = <<>>
    /\ stack = <<>>
    /\ items = {}
    /\ actions = <<>>
    /\ err = "none"
    /\ input = <<>>
    /\ kind = "iter"
    /\ g_call = NoCall
    /\ InitParsers

InitConfig == InitConfigOf(Configs)

\* FirstKProvider.__init__ up to the call of _prepare: new_start is generated
\* (the catalogue's grammars raise nothing there), the cache is emptied and the
\* list of nonterminals is taken in the order the dict yields them
FirstKProvider_init ==
    /\ pc = "new"
    /\ new_start(grammar).err = "none"
    /\ grammar' = new_start(grammar).g
    /\ \E nonterminals \in Perms(registered(new_start(grammar).g)) : order' = nonterminals
    /\ cache' = <<>>
    /\ round' = 0
    /\ idx' = 1
    /\ pc' = "prepare"
    /\ UNCHANGED <<g_call, k, query, vgvars, tbvars, pvars>>

\* the loops of _prepare never counting a finished round
prepare_step_uncounted ==
    /\ pc = "prepare"
    /\ round < sufficient_repetitions(Params)
    /\ cache' = expand_symbol(Params, cache, order[idx], TRUE)
    /\ idx' = IF idx < Len(order) THEN idx + 1 ELSE 1
    /\ UNCHANGED <<g_call, gvars, pc, order, round, query, vgvars, tbvars, pvars>>

\* one pass of the inner loop of _prepare: _expand_symbol(symbol, explicit=True)
prepare_step ==
    /\ pc = "prepare"
    /\ round < sufficient_repetitions(Params)
    /\ cache' = expand_symbol(Params, cache, order[idx], TRUE)
    /\ idx' = IF idx < Len(order) THEN idx + 1 ELSE 1
    /\ round' = IF idx < Len(order) THEN round ELSE round + 1
    /\ UNCHANGED <<g_call, gvars, pc, order, query, vgvars, tbvars, pvars>>

\* _prepare returns: the provider is ready
prepare_done ==
    /\ pc = "prepare"
    /\ round >= sufficient_repetitions(Params)
    /\ pc' = "firstk"
    /\ order' = <<>>
    /\ round' = 0
    /\ idx' = 1
    /\ UNCHANGED <<g_call, gvars, cache, query, vgvars, tbvars, pvars>>

\* the symbol sequences first_k is asked about: every suffix of a rule's
\* right-hand side (what the builders ask) and the probe of tests/lr_test.py
QuerySeqs(g) ==
    {Drop(r.rhs, i) : <<r, i>> \in {<<r1, i1>> \in g.rules \X (0..4) : i1 <= Len(r1.rhs)}}
        \cup {<<nS, tB, nS>>}

\* FirstKProvider.first_k(rule_symbols, continuation), |continuation| <= k
first_k_call ==
    /\ pc = "firstk"
    /\ \E rule_symbols \in QuerySeqs(grammar), continuation \in SeqsUpTo(Tokens, k) :
          /\ query' = [seq |-> rule_symbols, cont |-> continuation,
                       res |-> first_k(Params, cache, rule_symbols, continuation),
                       asked |-> TRUE]
          /\ cache' = expand_sequence(Params, cache, rule_symbols).cache
    /\ UNCHANGED <<g_call, gvars, pc, order, round, idx, vgvars, tbvars, pvars>>

NextFirstK == FirstKProvider_init \/ prepare_step \/ prepare_done \/ first_k_call

SpecFirstK == InitConfig /\ [][NextFirstK]_vars

\* the construction runs on its own: every step that can be taken is taken
SpecFirstKLive ==
    /\ InitConfig
    /\ [][NextFirstK]_vars
    /\ WF_vars(FirstKProvider_init)
    /\ WF_vars(prepare_step)
    /\ WF_vars(prepare_done)

\* ------------------------------------------------------------ VGkBuilder
\* VGkBuilder.__init__: the FirstKProvider is constructed (new_start, then
\* _prepare over the nonterminals in the order the dict yields them) and the
\* registry starts empty
VGkBuilder_init ==
    /\ pc = "new"
    /\ new_start(grammar).err = "none"
    /\ grammar' = new_start(grammar).g
    /\ \E nonterminals \in Perms(registered(new_start(grammar).g)) :
          cache' = prepare(FirstKParams(new_start(grammar).g, k), nonterminals)
    /\ tables' = UpdateableSet({}, {})
    /\ pc' = "firstk"
    /\ UNCHANGED <<g_call, k, order, round, idx, query, table, gotos, root, cur, pending, ctx, tbvars, pvars>>

\* VGkBuilder.build up to the first closure: start_table = Table.initial(...)
build_start ==
    /\ pc = "firstk"
    /\ table' = Table_initial(new_start_rule(grammar))
    /\ ctx' = <<>>
    /\ pc' = "closure"
    /\ UNCHANGED <<g_call, gvars, fkvars, query, tables, gotos, root, cur, pending, tbvars, pvars>>

\* one turn of the loop of _complete_table: any pending item may be popped
complete_table_pop ==
    /\ pc = "closure"
    /\ has_new(table)
    /\ \E state \in table.new_values :
          /\ table' = complete_table_step(Params, cache, table, state)
          /\ cache' = IF has_next_item(state) /\ ~is_terminal(get_next_item(state))
                      THEN expand_sequence(Params, cache,
                                           Drop(state.rule.rhs, state.rule_pos + 1)).cache
                      ELSE cache
    /\ UNCHANGED <<g_call, gvars, pc, order, round, idx, query, tables, gotos, root, cur, pending, ctx, tbvars, pvars>>

\* the rest of _add_table once the closure is complete: freeze, register the
\* item set unless an equal one is registered, and hand the new object to the
\* caller, which stores it as the root or in the gotos of the popped table
add_table_return ==
    /\ pc = "closure"
    /\ ~has_new(table)
    /\ LET res == add_table_result(tables, gotos, root, cur, ctx, table)
       IN  /\ tables' = res.tables
           /\ root' = res.root
           /\ gotos' = res.gotos
    /\ table' = UpdateableSet({}, {})
    /\ pc' = "gotos"
    /\ UNCHANGED <<g_call, gvars, fkvars, query, cur, pending, ctx, tbvars, pvars>>

\* the loop of build: any pending item set may be popped; its gotos are computed
build_pop ==
    /\ pc = "gotos"
    /\ DOMAIN pending = {}
    /\ has_new(tables)
    /\ \E popped \in tables.new_values :
          /\ tables' = process(tables, popped)
          /\ cur' = popped
          /\ pending' = goto(popped)
    /\ UNCHANGED <<g_call, gvars, fkvars, pc, query, table, gotos, root, ctx, tbvars, pvars>>

\* the for loop over _goto(table).items(): the dict yields the symbols in the
\* order the frozenset yielded the items, which is arbitrary
goto_next ==
    /\ pc = "gotos"
    /\ DOMAIN pending # {}
    /\ \E symbol \in DOMAIN pending :
          /\ table' = pending[symbol]
          /\ pending' = [s1 \in DOMAIN pending \ {symbol} |-> pending[s1]]
          /\ ctx' = <<symbol>>
    /\ pc' = "closure"
    /\ UNCHANGED <<g_call, gvars, fkvars, query, tables, gotos, root, cur, tbvars, pvars>>

\* build returns (root, set(self._tables))
build_return ==
    /\ pc = "gotos"
    /\ DOMAIN pending = {}
    /\ ~has_new(tables)
    /\ pc' = "vgk_done"
    /\ cur' = {}
    /\ ctx' = <<>>
    /\ UNCHANGED <<g_call, gvars, fkvars, query, table, tables, gotos, root, pending, tbvars, pvars>>

NextVGk ==
    \/ VGkBuilder_init
    \/ build_start
    \/ complete_table_pop
    \/ add_table_return
    \/ build_pop
    \/ goto_next
    \/ build_return

\* the grammars whose item sets are built under every pop order; the bracket
\* grammar's collection is built in one fixed order only (see Spec)
VGkConfigs == Configs \ {[g |-> GBrackets, k |-> 1]}

InitVGk == InitConfig /\ [g |-> grammar, k |-> k] \in VGkConfigs

SpecVGk == InitVGk /\ [][NextVGk]_vars

\* ------------------------------- reference: the canonical LR(k) collection
\* Defined without any processing order, over the lookahead sets the provider
\* answers with: the closure of an item set is the least superset closed under
\* "an item before a nonterminal brings that nonterminal's rules", and the
\* collection is the least set holding the closed start set and closed under goto.
RefPredicted(P, fcache, st) ==
    IF has_next_item(st) /\ ~is_terminal(get_next_item(st))
    THEN {State(r, 0, c) : r \in {r1 \in P.rules : r1.lhs = get_next_item(st)},
                           c \in first_k(P, fcache, Drop(st.rule.rhs, st.rule_pos + 1),
                                         st.continuation)}
    ELSE {}

RECURSIVE RefClosure(_, _, _)
RefClosure(P, fcache, I) ==
    CHOOSE out \in {IF I1 = I THEN I ELSE RefClosure(P, fcache, I1) :
                      I1 \in {I \cup UNION {RefPredicted(P, fcache, st) : st \in I}}} : TRUE

RefSymbols(I) == {st.rule.rhs[st.rule_pos + 1] : st \in {s1 \in I : s1.rule_pos < Len(s1.rule.rhs)}}

RefGoto(P, fcache, I, X) ==
    RefClosure(P, fcache,
               {[st EXCEPT !.rule_pos = @ + 1] :
                  st \in {s1 \in I : s1.rule_pos < Len(s1.rule.rhs) /\ s1.rule.rhs[s1.rule_pos + 1] = X}})

RefRoot(P, fcache, start_rule) == RefClosure(P, fcache, {State(start_rule, 0, <<>>)})

RECURSIVE RefCollectionFrom(_, _, _)
RefCollectionFrom(P, fcache, C) ==
    CHOOSE out \in {IF C1 = C THEN C ELSE RefCollectionFrom(P, fcache, C1) :
                      C1 \in {C \cup {RefGoto(P, fcache, I, X) :
                                         <<I, X>> \in {<<I1, X1>> \in C \X UNION {RefSymbols(I2) : I2 \in C} :
                                                         X1 \in RefSymbols(I1)}}}} : TRUE

RefCollection(P, fcache, start_rule) ==
    RefCollectionFrom(P, fcache, {RefRoot(P, fcache, start_rule)})

\* C6: whatever order the pending items of a closure and the pending item sets
\* of the registry are popped in, build() ends with the same result: the root is
\* the closed start set, the registry holds exactly the canonical collection
\* with nothing pending, and the gotos of every registered item set lead, per
\* next symbol, to the closed goto set (compared by items).
C6_BuildConfluent ==
    pc = "vgk_done" =>
        /\ root.values = RefRoot(Params, cache, new_start_rule(grammar))
        /\ ~has_new(tables)
        /\ tables.values = RefCollection(Params, cache, new_start_rule(grammar))
        /\ DOMAIN gotos = tables.values
        /\ \A I \in DOMAIN gotos :
              /\ DOMAIN gotos[I] = RefSymbols(I)
              /\ \A X \in DOMAIN gotos[I] : gotos[I][X].values = RefGoto(Params, cache, I, X)

\* build() has returned a collection of several item sets in which some goto
\* led to an item set that another path had registered before
C6_Witness ==
    /\ pc = "vgk_done"
    /\ Cardinality(tables.values) >= 4
    /\ \E I \in DOMAIN gotos : \E X \in DOMAIN gotos[I] : ~gotos[I][X].registered

\* ------------------------------------------------------- LRTablesBuilder
\* VGkBuilder.build as LRTablesBuilder.build calls it, the pops in a fixed order
vgk_build ==
    /\ pc = "firstk"
    /\ LET res == VGk_build(Params, cache, new_start_rule(grammar))
       IN  /\ tables' = res.tables
           /\ gotos' = res.gotos
           /\ root' = res.root
    /\ pc' = "vgk_done"
    /\ UNCHANGED <<g_call, gvars, fkvars, query, table, cur, pending, ctx, tbvars, pvars>>

\* LRTablesBuilder.build calls _process(root)
tables_build_start ==
    /\ pc = "vgk_done"
    /\ stack' = <<Frame(root, DOMAIN gotos_of(gotos, root), <<>>)>>
    /\ pc' = "state_for"
    /\ UNCHANGED <<g_call, gvars, fkvars, query, vgvars, states, items, actions, err, pvars>>

\* a _state_for hit that is taken to mean the item set has been walked already
state_for_known_skipping ==
    /\ pc = "state_for"
    /\ stack[Len(stack)].vgk.values \in DOMAIN states
    /\ stack' = [stack EXCEPT ![Len(stack)].todo = {}]
    /\ pc' = "children"
    /\ UNCHANGED <<g_call, gvars, fkvars, query, vgvars, states, items, actions, err, pvars>>

\* _state_for finds the item set in _states
state_for_known ==
    /\ pc = "state_for"
    /\ stack[Len(stack)].vgk.values \in DOMAIN states
    /\ pc' = "children"
    /\ UNCHANGED <<g_call, gvars, fkvars, query, vgvars, tbvars, pvars>>

\* _state_for creates an LRState and enters _build_actions
build_actions_start ==
    /\ pc = "state_for"
    /\ stack[Len(stack)].vgk.values \notin DOMAIN states
    /\ items' = stack[Len(stack)].vgk.values
    /\ actions' = <<>>
    /\ pc' = "actions"
    /\ UNCHANGED <<g_call, gvars, fkvars, query, vgvars, states, stack, err, pvars>>

\* one turn of the loop of _build_actions; the frozenset yields the items in
\* any order; a raise ends the whole construction
build_actions_item ==
    /\ pc = "actions"
    /\ items # {}
    /\ \E state \in items :
          LET res == build_actions_step(Params, cache, actions, state)
          IN  /\ actions' = res.actions
              /\ err' = res.err
              /\ items' = IF res.err = "none" THEN items \ {state} ELSE {}
              /\ pc' = IF res.err = "none" THEN "actions" ELSE "failed"
              /\ stack' = IF res.err = "none" THEN stack ELSE <<>>
    /\ UNCHANGED <<g_call, gvars, fkvars, query, vgvars, states, pvars>>

\* _build_actions returns; _state_for stores the LRState
build_actions_done ==
    /\ pc = "actions"
    /\ items = {}
    /\ states' = (stack[Len(stack)].vgk.values :> LRState(actions, <<>>)) @@ states
    /\ actions' = <<>>
    /\ pc' = "children"
    /\ UNCHANGED <<g_call, gvars, fkvars, query, vgvars, stack, items, err, pvars>>

\* the for loop of _process reaches an entry of vgk.gotos and recurses
process_child ==
    /\ pc = "children"
    /\ stack[Len(stack)].todo # {}
    /\ \E symbol \in stack[Len(stack)].todo :
          LET top == stack[Len(stack)]
              next_vgk == gotos_of(gotos, top.vgk)[symbol]
          IN  stack' = Append([stack EXCEPT ![Len(stack)] =
                                  Frame(top.vgk, top.todo \ {symbol}, <<symbol>>)],
                              Frame(next_vgk, DOMAIN gotos_of(gotos, next_vgk), <<>>))
    /\ pc' = "state_for"
    /\ UNCHANGED <<g_call, gvars, fkvars, query, vgvars, states, items, actions, err, pvars>>

\* _process returns lr_state: the caller enters the transition(s), or build ends
process_return ==
    /\ pc = "children"
    /\ stack[Len(stack)].todo = {}
    /\ stack' = SubSeq(stack, 1, Len(stack) - 1)
    /\ IF Len(stack) = 1
       THEN /\ pc' = "tables_done"
            /\ states' = states
       ELSE /\ pc' = "children"
            /\ states' = [states EXCEPT ![stack[Len(stack) - 1].vgk.values] =
                             set_transition(@, stack[Len(stack) - 1].visiting[1],
                                            stack[Len(stack)].vgk.values)]
    /\ UNCHANGED <<g_call, gvars, fkvars, query, vgvars, items, actions, err, pvars>>

NextTables ==
    \/ VGkBuilder_init
    \/ vgk_build
    \/ tables_build_start
    \/ state_for_known
    \/ build_actions_start
    \/ build_actions_item
    \/ build_actions_done
    \/ process_child
    \/ process_return

SpecTables == InitConfig /\ [][NextTables]_vars

\* ------------------------------------------------- conflicts (claim side)
\* the lookahead tuples an item claims in its item set, and the action it claims
ItemClaims(P, fcache, st) ==
    IF st.rule_pos < Len(st.rule.rhs)
    THEN IF is_terminal(st.rule.rhs[st.rule_pos + 1])
         THEN first_k(P, fcache, Drop(st.rule.rhs, st.rule_pos), st.continuation)
         ELSE {}
    ELSE {st.continuation}

ItemAction(st) ==
    IF st.rule_pos < Len(st.rule.rhs) THEN "shift"
    ELSE IF st.rule.lhs = Nonterminal(new_start_name) /\ st.continuation = <<>> THEN "accept"
    ELSE "reduce"

\* a shift and a reduce, or two different reduces, on one lookahead tuple
ItemsConflict(P, fcache, s1, s2) ==
    /\ ItemClaims(P, fcache, s1) \cap ItemClaims(P, fcache, s2) # {}
    /\ ItemAction(s1) # "accept"
    /\ ItemAction(s2) = "reduce"
    /\ ItemAction(s1) = "reduce" => s1.rule # s2.rule

HasConflict(P, fcache, collection) ==
    \E I \in collection : \E s1, s2 \in I : ItemsConflict(P, fcache, s1, s2)

\* C4 (as claimed): when an item set of the collection holds a shift/reduce or
\* reduce/reduce conflict, build() ends by raising LRConflict and never returns
\* a table; and while an item set's actions are filled, every item visited so
\* far still has its own action stored under each lookahead it claims.
C4_ConflictRaisesLRConflict ==
    /\ (pc \in {"failed", "tables_done"} /\ HasConflict(Params, cache, tables.values)) =>
          (pc = "failed" /\ err \in {"LRConflict: Shift-reduce conflict",
                                     "LRConflict: Reduce-reduce conflict"})
    /\ pc = "actions" =>
          \A st \in stack[Len(stack)].vgk.values \ items :
             \A c \in ItemClaims(Params, cache, st) :
                c \in DOMAIN actions /\ actions[c].tag = ItemAction(st)
                  /\ (ItemAction(st) = "reduce" => actions[c].rule = st.rule)

\* ------------------------------------------------ reference: FIRST_k proper
\* The set of the first min(k, |x|) tokens of every terminal string x derivable
\* from a symbol sequence, as the least fixpoint of the textbook equations: the
\* k-truncated concatenation of the symbols' sets, empty as soon as one symbol
\* derives nothing.
RefConcat(kk, X, Y) == {Take(x \o y, kk) : x \in X, y \in Y}

RECURSIVE RefSeq(_, _, _)
RefSeq(kk, F, seq) ==
    IF seq = <<>> THEN {<<>>}
    ELSE RefConcat(kk,
                   IF is_terminal(Head(seq)) THEN {<<get_token(Head(seq))>>}
                   ELSE IF Head(seq) \in DOMAIN F THEN F[Head(seq)] ELSE {},
                   RefSeq(kk, F, Tail(seq)))

RefStep(P, F) ==
    [X \in DOMAIN F |-> F[X] \cup UNION {RefSeq(P.k, F, r.rhs) : r \in rules_by_lhs(P, X)}]

RECURSIVE RefFix(_, _)
RefFix(P, F) ==
    CHOOSE out \in {IF F1 = F THEN F ELSE RefFix(P, F1) : F1 \in {RefStep(P, F)}} : TRUE

RefFirstSets(P) == RefFix(P, [X \in {r.lhs : r \in P.rules} |-> {}])

RefFirstK(P, seq, cont) ==
    {Take(x \o cont, P.k) : x \in RefSeq(P.k, RefFirstSets(P), seq)}

\* C5 (as claimed): every first_k(seq, cont) with |cont| <= k returns exactly the
\* set of the first min(k, |x|) tokens of the terminal strings x derivable from
\* seq followed by cont; a sequence deriving no terminal string yields {}.
C5_FirstKExact ==
    query.asked => query.res = RefFirstK(Params, query.seq, query.cont)
\* ----------------------------------------------------------- LRParserConfig
\* LRParserConfig.__init__: new_start, then LRTablesBuilder(grammar, k).build()
\* as a whole, every set visited in one fixed order (SpecVGk and SpecTables take
\* the same code through every order)
LRParserConfig_init ==
    /\ pc = "new"
    /\ busy = "none"
    /\ new_start(grammar).err = "none"
    /\ grammar' = new_start(grammar).g
    /\ \E nonterminals \in Perms(registered(new_start(grammar).g)) :
          LET P == FirstKParams(new_start(grammar).g, k)
              prepared == prepare(P, nonterminals)
              res == tables_build(P, prepared, new_start_rule(grammar))
          IN  /\ cache' = prepared
              /\ tables' = res.tables
              /\ gotos' = res.gotos
              /\ root' = res.root
              /\ states' = res.states
              /\ err' = res.err
              /\ pc' = IF res.err = "none" THEN "tables_done" ELSE "failed"
    /\ UNCHANGED <<g_call, k, order, round, idx, query, table, cur, pending, ctx,
                   stack, items, actions, pvars>>

\* ----------------------------------------------------------------- LRParser
\* LRParser.feed(source): a new stream over the caller's iterable, a new stack
LR_feed ==
    /\ pc = "tables_done"
    /\ busy = "none"
    /\ kind # "none"
    /\ lr_source' = [present |-> TRUE,
                     stream |-> PeekableStream_init(Source(kind, input), k, eof_token)]
    /\ lr_stack' = feed_stack(lr_stack, root)
    /\ lr_result' = "none"
    /\ lr_consumed' = <<>>
    /\ lr_fed' = TRUE
    /\ lr_calls' = 0
    /\ fed' = [fed EXCEPT !.lr = <<kind, input>>]
    /\ UNCHANGED <<g_call, config2, other, ret, gvars, pc, fkvars, query, vgvars, tbvars, hvars, evars>>

\* what LRParser._is_initialized would say were the attribute always there
lr_always_initialized(source) == TRUE

\* LRParser._is_initialized: hasattr(self, "_source")
lr_is_initialized(source) == source.present

\* LRParser.parse up to the call of _parse: raises unless _source exists
LR_parse ==
    /\ pc = "tables_done"
    /\ busy = "none"
    /\ IF lr_is_initialized(lr_source)
       THEN /\ busy' = "lr"
            /\ lr_result' = "none"
       ELSE /\ busy' = busy
            /\ lr_result' = "RuntimeError: Parser is not initialized"
    /\ lr_calls' = Min(lr_calls + 1, MaxCalls)
    /\ UNCHANGED <<g_call, xvars, gvars, pc, fkvars, query, vgvars, tbvars, input, kind,
                   lr_source, lr_stack, lr_consumed, lr_fed, evars>>

cur_state == states[lr_stack[Len(lr_stack)].state]

preview == lookahead(lr_source.stream, k, eof_token)

\* _parse leaves its loop without a shift or reduce: the stack is empty (the
\* final assert), or no action is stored for the lookahead (return False, and
\* parse deletes _source)
LR_reject ==
    /\ busy = "lr"
    /\ lr_stack = <<>> \/ preview \notin DOMAIN cur_state.actions
    /\ IF lr_stack = <<>>
       THEN /\ lr_result' = "AssertionError: Shouldn't be reachable"
            /\ lr_source' = lr_source
       ELSE /\ lr_result' = "false"
            /\ lr_source' = [lr_source EXCEPT !.present = FALSE]
    /\ busy' = "none"
    /\ UNCHANGED <<g_call, xvars, gvars, pc, fkvars, query, vgvars, tbvars, input, kind,
                   lr_stack, lr_consumed, lr_fed, lr_calls, evars>>

\* the action is Accept: return True, and parse deletes _source
LR_accept ==
    /\ busy = "lr"
    /\ lr_stack # <<>>
    /\ preview \in DOMAIN cur_state.actions
    /\ cur_state.actions[preview].tag = "accept"
    /\ lr_result' = "true"
    /\ lr_source' = [lr_source EXCEPT !.present = FALSE]
    /\ busy' = "none"
    /\ UNCHANGED <<g_call, xvars, gvars, pc, fkvars, query, vgvars, tbvars, input, kind,
                   lr_stack, lr_consumed, lr_fed, lr_calls, evars>>

\* the action is Shift: the stream's next token is pushed with the state its
\* transition leads to (KeyError if the state has none for that token)
LR_shift ==
    /\ busy = "lr"
    /\ lr_stack # <<>>
    /\ Len(lr_stack) < MaxStack
    /\ preview \in DOMAIN cur_state.actions
    /\ cur_state.actions[preview].tag = "shift"
    /\ LET r == next(lr_source.stream, eof_token)
           ch == r.result
       IN  /\ lr_source' = [lr_source EXCEPT !.stream = r.stream]
           /\ lr_consumed' = Append(lr_consumed, ch)
           /\ IF TokenKey(ch) \in DOMAIN cur_state.transitions
              THEN /\ lr_stack' = Append(lr_stack, [symbol |-> TokenKey(ch),
                                                    state |-> cur_state.transitions[TokenKey(ch)]])
                   /\ UNCHANGED <<lr_result, busy>>
              ELSE /\ lr_result' = "KeyError"
                   /\ busy' = "none"
                   /\ lr_stack' = lr_stack
    /\ UNCHANGED <<g_call, xvars, gvars, pc, fkvars, query, vgvars, tbvars, input, kind,
                   lr_fed, lr_calls, evars>>

\* a Reduce that pops one entry more than the rule is long
LR_reduce_one_more ==
    /\ busy = "lr"
    /\ lr_stack # <<>>
    /\ preview \in DOMAIN cur_state.actions
    /\ cur_state.actions[preview].tag = "reduce"
    /\ LET rule == cur_state.actions[preview].rule
           left == Len(lr_stack) - Len(rule.rhs) - 1
       IN  /\ left < MaxStack
           /\ IF left <= 0
              THEN /\ lr_stack' = <<>>
                   /\ lr_result' = "IndexError"
                   /\ busy' = "none"
              ELSE IF rule.lhs \notin DOMAIN states[lr_stack[left].state].transitions
              THEN /\ lr_stack' = SubSeq(lr_stack, 1, left)
                   /\ lr_result' = "KeyError"
                   /\ busy' = "none"
              ELSE /\ lr_stack' = Append(SubSeq(lr_stack, 1, left),
                                         [symbol |-> rule.lhs,
                                          state |-> states[lr_stack[left].state].transitions[rule.lhs]])
                   /\ UNCHANGED <<lr_result, busy>>
    /\ UNCHANGED <<g_call, xvars, gvars, pc, fkvars, query, vgvars, tbvars, input, kind,
                   lr_source, lr_consumed, lr_fed, lr_calls, evars>>

\* the action is Reduce: len(rule) entries are popped (IndexError when the
\* stack runs out) and the rule's lhs is pushed with the state the uncovered
\* state's transition leads to (KeyError if it has none)
LR_reduce ==
    /\ busy = "lr"
    /\ lr_stack # <<>>
    /\ preview \in DOMAIN cur_state.actions
    /\ cur_state.actions[preview].tag = "reduce"
    /\ LET rule == cur_state.actions[preview].rule
           left == Len(lr_stack) - Len(rule.rhs)
       IN  /\ left < MaxStack
           /\ IF left <= 0
              THEN /\ lr_stack' = <<>>
                   /\ lr_result' = "IndexError"
                   /\ busy' = "none"
              ELSE IF rule.lhs \notin DOMAIN states[lr_stack[left].state].transitions
              THEN /\ lr_stack' = SubSeq(lr_stack, 1, left)
                   /\ lr_result' = "KeyError"
                   /\ busy' = "none"
              ELSE /\ lr_stack' = Append(SubSeq(lr_stack, 1, left),
                                         [symbol |-> rule.lhs,
                                          state |-> states[lr_stack[left].state].transitions[rule.lhs]])
                   /\ UNCHANGED <<lr_result, busy>>
    /\ UNCHANGED <<g_call, xvars, gvars, pc, fkvars, query, vgvars, tbvars, input, kind,
                   lr_source, lr_consumed, lr_fed, lr_calls, evars>>

\* -------------------------------------------------------- EarleyParserConfig
\* EarleyParserConfig.__init__: split_long_terminals (which generates the
\* receiver's new start), then the copy's own new start rule and rules_by_lhs
EarleyParserConfig_init ==
    /\ ~earley_config.built
    /\ busy = "none"
    /\ pc \in {"new", "tables_done", "failed"}
    /\ new_start(grammar).err = "none"
    /\ grammar' = new_start(grammar).g
    /\ LET copy == new_start(split_long_terminals(new_start(grammar).g))
       IN  /\ copy.err = "none"
           /\ earley_config' = [built |-> TRUE,
                                start_rule |-> new_start_rule(copy.g),
                                rules |-> copy.g.rules]
    /\ UNCHANGED <<g_call, xvars, k, pc, fkvars, query, vgvars, tbvars, hvars, lrvars,
                   earley_source, earley_iter, earley_tables, earley_tok,
                   earley_phase, earley_result, earley_fed, earley_calls>>

\* ------------------------------------------------------------- EarleyParser
\* EarleyParser.feed(source)
Earley_feed ==
    /\ earley_config.built
    /\ busy = "none"
    /\ kind # "none"
    /\ earley_source' = [present |-> TRUE, source |-> Source(kind, input)]
    /\ earley_tables' = <<EarleyTable_initial(earley_config.start_rule)>>
    /\ earley_result' = "none"
    /\ earley_fed' = TRUE
    /\ earley_calls' = 0
    /\ fed' = [fed EXCEPT !.earley = <<kind, input>>]
    /\ UNCHANGED <<g_call, config2, other, ret, gvars, pc, fkvars, query, vgvars, tbvars, hvars, lrvars,
                   earley_config, earley_iter, earley_tok, earley_phase>>

\* EarleyParser._is_initialized: hasattr(self, "_source")
earley_is_initialized(source) == source.present

\* EarleyParser.parse up to its for loop: raises unless _source exists; the
\* loop iterates a one-shot iterator itself and a sequence from its start
Earley_parse ==
    /\ earley_config.built
    /\ busy = "none"
    /\ earley_calls' = Min(earley_calls + 1, MaxCalls)
    /\ IF earley_is_initialized(earley_source)
       THEN /\ busy' = "earley"
            /\ earley_phase' = "loop"
            /\ earley_iter' = Source("iter", earley_source.source.data)
            /\ earley_result' = "none"
       ELSE /\ earley_result' = "RuntimeError: Parser is not initialized"
            /\ UNCHANGED <<busy, earley_phase, earley_iter>>
    /\ UNCHANGED <<g_call, xvars, gvars, pc, fkvars, query, vgvars, tbvars, input, kind, lrvars,
                   earley_config, earley_source, earley_tables, earley_tok, earley_fed>>

\* the for loop yields a token and calls _step(tok), or is over and parse calls
\* _step(None); either way _step first appends an empty Table
Earley_step ==
    /\ busy = "earley"
    /\ earley_phase = "loop"
    /\ IF earley_iter.data # <<>>
       THEN /\ earley_tok' = <<Head(earley_iter.data)>>
            /\ earley_iter' = Source("iter", Tail(earley_iter.data))
            /\ earley_source' =
                 IF earley_source.source.kind = "iter"
                 THEN [earley_source EXCEPT !.source = Source("iter", Tail(earley_iter.data))]
                 ELSE earley_source
            /\ earley_phase' = "step"
       ELSE /\ earley_tok' = <<>>
            /\ earley_phase' = "last"
            /\ UNCHANGED <<earley_iter, earley_source>>
    /\ earley_tables' = Append(earley_tables, EarleyTable({}, {}))
    /\ UNCHANGED <<g_call, xvars, gvars, pc, fkvars, query, vgvars, tbvars, hvars, lrvars,
                   earley_config, earley_result, earley_fed, earley_calls>>

\* one turn of the while loop of _step: any pending item of the current table
\* may be popped. A completed item is handed to _complete; for any other item
\* line 146 calls next_item.isTerminal(), a method no symbol class has, so the
\* AttributeError leaves parse (and _scan and _predict are never reached)
Earley_process_state ==
    /\ busy = "earley"
    /\ earley_phase \in {"step", "last"}
    /\ has_new_states(earley_tables[Len(earley_tables) - 1])
    /\ \E state \in earley_tables[Len(earley_tables) - 1].new_states :
          LET popped == [earley_tables EXCEPT ![Len(earley_tables) - 1] = process_state(@, state)]
          IN  IF ~has_next_item(state)
              THEN /\ earley_tables' = complete(popped, state)
                   /\ UNCHANGED <<busy, earley_phase, earley_result>>
              ELSE /\ earley_tables' = popped
                   /\ earley_result' = "AttributeError: no attribute 'isTerminal'"
                   /\ earley_phase' = "idle"
                   /\ busy' = "none"
    /\ UNCHANGED <<g_call, xvars, gvars, pc, fkvars, query, vgvars, tbvars, input, kind, lrvars,
                   earley_config, earley_source, earley_iter, earley_tok,
                   earley_fed, earley_calls>>

\* _step returns: back to the for loop, or after _step(None) the verdict is read
\* off the current table and _source is deleted
Earley_step_return ==
    /\ busy = "earley"
    /\ earley_phase \in {"step", "last"}
    /\ ~has_new_states(earley_tables[Len(earley_tables) - 1])
    /\ IF earley_phase = "step"
       THEN /\ earley_phase' = "loop"
            /\ UNCHANGED <<busy, earley_result, earley_source>>
       ELSE /\ earley_phase' = "idle"
            /\ busy' = "none"
            /\ earley_result' =
                 IF is_successful(earley_tables[Len(earley_tables) - 1], earley_config.start_rule)
                 THEN "true" ELSE "false"
            /\ earley_source' = [earley_source EXCEPT !.present = FALSE]
    /\ UNCHANGED <<g_call, xvars, gvars, pc, fkvars, query, vgvars, tbvars, input, kind, lrvars,
                   earley_config, earley_iter, earley_tables, earley_tok,
                   earley_fed, earley_calls>>

\* ------------------------------------------------------------ the library
\* a grammar and k for the configs; nothing constructed, nothing fed
Init ==
    /\ \E c \in Configs : grammar = c.g /\ k = c.k
    /\ pc = "new"
    /\ cache = <<>>
    /\ order = <<>>
    /\ round = 0
    /\ idx = 1
    /\ query = NoQuery
    /\ table = UpdateableSet({}, {})
    /\ tables = UpdateableSet({}, {})
    /\ gotos = <<>>
    /\ root = FrozenTable({}, FALSE)
    /\ cur = {}
    /\ pending = <<>>
    /\ ctx = <<>>
    /\ states = <<>>
    /\ stack = <<>>
    /\ items = {}
    /\ actions = <<>>
    /\ err = "none"
    /\ input = <<>>
    /\ kind = "none"
    /\ g_call = NoCall
    /\ InitParsers

\* the caller, once both configs have been constructed (or the LR one has
\* raised), settles the token sequence it will feed and how it will hand it over
caller_input ==
    /\ kind = "none"
    /\ pc \in {"tables_done", "failed"}
    /\ earley_config.built
    /\ input' \in Inputs
    /\ kind' \in {"iter", "list"}
    /\ UNCHANGED <<g_call, xvars, gvars, pc, fkvars, query, vgvars, tbvars, busy, lrvars, evars>>

Next ==
    \/ caller_input
    \/ LRParserConfig_init
    \/ LR_feed
    \/ LR_parse
    \/ LR_reject
    \/ LR_accept
    \/ LR_shift
    \/ LR_reduce
    \/ EarleyParserConfig_init
    \/ Earley_feed
    \/ Earley_parse
    \/ Earley_step
    \/ Earley_process_state
    \/ Earley_step_return

Spec == Init /\ [][Next]_vars

\* ------------------------------------------- reference: the language of G
\* Membership by the least fixpoint of "A spans i..j": a rule of A whose
\* right-hand side can be laid over w from i to j, terminals on equal tokens and
\* nonterminals on spans already known.
RECURSIVE RefEnds(_, _, _, _)
RefEnds(F, w, rhs, from) ==
    IF rhs = <<>> THEN {from}
    ELSE LET X == Head(rhs)
             mids == IF X.kind # "nt"
                     THEN IF from < Len(w) /\ w[from + 1] = X.v THEN {from + 1} ELSE {}
                     ELSE {j \in 0..Len(w) : <<X, from, j>> \in F}
         IN  UNION {RefEnds(F, w, Tail(rhs), m) : m \in mids}

RefSpansStep(rules, w, F) ==
    F \cup UNION {{<<r.lhs, i, j>> : j \in RefEnds(F, w, r.rhs, i)} :
                    <<r, i>> \in rules \X (0..Len(w))}

RECURSIVE RefSpans(_, _, _)
RefSpans(rules, w, F) ==
    CHOOSE out \in {IF F1 = F THEN F ELSE RefSpans(rules, w, F1) :
                      F1 \in {RefSpansStep(rules, w, F)}} : TRUE

InLanguage(g, w) == <<Nonterminal(g.start), 0, Len(w)>> \in RefSpans(g.rules, w, {})

Verdict(b) == IF b THEN "true" ELSE "false"

\* the first parse() after a feed() has ended, by returning or by raising
LRParsedOnce == lr_fed /\ lr_calls = 1 /\ busy # "lr" /\ lr_result # "none"

EarleyParsedOnce == earley_fed /\ earley_calls = 1 /\ busy # "earley" /\ earley_result # "none"

\* C1 (as claimed): EarleyParser, fed w and then asked to parse, returns true
\* when the start nonterminal derives w and false when it does not.
C1_EarleyAcceptsIffDerives ==
    EarleyParsedOnce => earley_result = Verdict(InLanguage(grammar, input))

\* C2 (as claimed): on a grammar whose LRParserConfig was built without a
\* conflict, LRParser, fed w (no EOF token in it) and then asked to parse,
\* returns true when w is in the language and false when it is not.
C2_LRAcceptsIffInLanguage ==
    (pc = "tables_done" /\ LRParsedOnce) => lr_result = Verdict(InLanguage(grammar, input))

\* C3 (as claimed): on a grammar the LR builder succeeds on, the LR recognizer
\* and the Earley recognizer, fed the same tokens, come to the same verdict.
C3_LRAgreesWithEarley ==
    (pc = "tables_done" /\ LRParsedOnce /\ EarleyParsedOnce) => lr_result = earley_result

\* ------------------------------------------- reference: the Earley chart
\* The item sets of Earley's algorithm without any processing order: position 0
\* starts from the start rule, position i+1 from the items scanned over token
\* i+1, and each is closed under prediction and completion.
RefEarleyAdds(rules, chart, I, pos, st) ==
    IF st.rule_pos = Len(st.rule.rhs)
    THEN {[p EXCEPT !.rule_pos = @ + 1] :
            p \in {q \in (IF st.start_offset = pos THEN I ELSE chart[st.start_offset + 1]) :
                     q.rule_pos < Len(q.rule.rhs) /\ q.rule.rhs[q.rule_pos + 1] = st.rule.lhs}}
    ELSE IF st.rule.rhs[st.rule_pos + 1].kind = "nt"
    THEN {EarleyState(r, 0, pos) : r \in {r1 \in rules : r1.lhs = st.rule.rhs[st.rule_pos + 1]}}
    ELSE {}

RECURSIVE RefEarleyClosure(_, _, _, _)
RefEarleyClosure(rules, chart, I, pos) ==
    CHOOSE out \in {IF I1 = I THEN I ELSE RefEarleyClosure(rules, chart, I1, pos) :
                      I1 \in {I \cup UNION {RefEarleyAdds(rules, chart, I, pos, st) : st \in I}}} : TRUE

RefEarleyScan(I, tok) ==
    {[st EXCEPT !.rule_pos = @ + 1] :
       st \in {q \in I : /\ q.rule_pos < Len(q.rule.rhs)
                         /\ q.rule.rhs[q.rule_pos + 1].kind # "nt"
                         /\ q.rule.rhs[q.rule_pos + 1].v = tok}}

RECURSIVE RefChartFrom(_, _, _)
RefChartFrom(rules, w, chart) ==
    IF Len(chart) = Len(w) + 1 THEN chart
    ELSE CHOOSE out \in
           {RefChartFrom(rules, w, Append(chart, I)) :
              I \in {RefEarleyClosure(rules, chart,
                                      RefEarleyScan(chart[Len(chart)], w[Len(chart)]),
                                      Len(chart))}} : TRUE

RefChart(rules, start_rule, w) ==
    RefChartFrom(rules, w, <<RefEarleyClosure(rules, <<>>, {EarleyState(start_rule, 0, 0)}, 0)>>)

\* C7 (as claimed): whatever order the pending items of a chart position are
\* popped in, a parse ends with the one verdict and the one closed item set per
\* chart position that the grammar and the tokens determine.
C7_EarleyParseDetermined ==
    EarleyParsedOnce =>
        LET chart == RefChart(earley_config.rules, earley_config.start_rule, input)
        IN  /\ earley_result =
                 Verdict(\E st \in chart[Len(input) + 1] :
                            st.rule = earley_config.start_rule /\ st.rule_pos = Len(st.rule.rhs))
            /\ Len(earley_tables) = Len(input) + 2
            /\ \A i \in 1..(Len(input) + 1) : earley_tables[i].states = chart[i]

\* C8 (as claimed): on a config built without error, feed() then parse() ends
\* by returning a boolean, never by raising, for the LR and the Earley
\* recognizer alike, whatever the tokens.
C8_ParseReturnsBoolean ==
    /\ (pc = "tables_done" /\ LRParsedOnce) => lr_result \in {"true", "false"}
    /\ EarleyParsedOnce => earley_result \in {"true", "false"}

\* C9: a parser on which feed() has never been called answers every parse()
\* with the "Parser is not initialized" RuntimeError and starts no parse: no
\* driver loop runs, and no stack, stream or chart comes into being.
C9_ParseBeforeFeed ==
    /\ ~lr_fed =>
          /\ busy # "lr"
          /\ lr_stack = <<>>
          /\ ~lr_source.present
          /\ lr_consumed = <<>>
          /\ lr_calls > 0 => lr_result = "RuntimeError: Parser is not initialized"
    /\ ~earley_fed =>
          /\ busy # "earley"
          /\ earley_tables = <<>>
          /\ ~earley_source.present
          /\ earley_phase = "idle"
          /\ earley_calls > 0 => earley_result = "RuntimeError: Parser is not initialized"

\* parse() has been called on both parsers, neither of them ever fed
C9_Witness ==
    /\ ~lr_fed /\ lr_calls > 0
    /\ ~earley_fed /\ earley_calls > 0
    /\ pc = "tables_done"

\* what the driver has been shown of the stream since feed: the tokens next()
\* returned, then the tokens it can peek at
Seen == lr_consumed \o lr_source.stream.peeked

\* C10 (as claimed): however the caller's iterable is made, the peekable stream
\* shows the driver the fed tokens once each, in order, and EOF sentinels from
\* then on.
C10_StreamShowsInputOnce ==
    lr_fed => \A i \in 1..Len(Seen) :
                 Seen[i] = IF i <= Len(input) THEN input[i] ELSE eof_token

\* ------------------------------------------------ the Grammar object alone
\* Calls made on a Grammar directly: add_rule, ensure_nonterminal, the new_start
\* accessor and split_long_terminals, from a grammar constructed over any part
\* of a pool of rules.
tAB == StrTerminal(<<"a", "b">>)
tEmpty == StrTerminal(<<>>)
nNewStart == Nonterminal(new_start_name)

\* S -> "ab" S | "" | N "a" ;  N -> (nothing) ;  a rule of the reserved name ;
\* a rule that only mentions the reserved name
RulePool ==
    {Rule(nS, <<tAB, nS>>), Rule(nS, <<tEmpty>>), Rule(nS, <<nN, tA>>), Rule(nN, <<>>),
     Rule(nNewStart, <<tA>>), Rule(nA, <<nNewStart>>)}

\* the names ensure_nonterminal is called with
NamePool == {<<"S">>, <<"N">>, new_start_name}

Called(op, e, value, new_grammar) ==
    [op |-> op, err |-> e, value |-> value, cached |-> FALSE, new_grammar |-> new_grammar]

\* Grammar(rules, "S") over any part of the pool; nothing else exists yet
InitGrammarOf(pool) ==
    /\ \E rules \in SUBSET pool : grammar = Grammar(rules, <<"S">>)
    /\ k = 1
    /\ pc = "new"
    /\ cache = <<>> /\ order = <<>> /\ round = 0 /\ idx = 1
    /\ query = NoQuery
    /\ table = UpdateableSet({}, {}) /\ tables = UpdateableSet({}, {})
    /\ gotos = <<>> /\ root = FrozenTable({}, FALSE) /\ cur = {}
    /\ pending = <<>> /\ ctx = <<>>
    /\ states = <<>> /\ stack = <<>> /\ items = {} /\ actions = <<>> /\ err = "none"
    /\ input = <<>> /\ kind = "none"
    /\ g_call = NoCall
    /\ InitParsers

InitGrammar == InitGrammarOf(RulePool)

\* grammar.add_rule(rule)
Grammar_add_rule ==
    /\ \E rule \in RulePool : grammar' = add_rule(grammar, rule)
    /\ g_call' = Called("add_rule", "none", <<>>, NoCall.new_grammar)
    /\ UNCHANGED <<k, pc, fkvars, query, vgvars, tbvars, pvars>>

\* grammar.ensure_nonterminal(name): returns the nonterminal
Grammar_ensure_nonterminal ==
    /\ \E name \in NamePool :
          /\ grammar' = ensure_nonterminal(grammar, name)
          /\ g_call' = Called("ensure_nonterminal", "none", <<Nonterminal(name)>>,
                              NoCall.new_grammar)
    /\ UNCHANGED <<k, pc, fkvars, query, vgvars, tbvars, pvars>>

\* grammar.new_start: returns the augmented start or raises; `cached` tells
\* whether the cached_property already held a value
Grammar_new_start ==
    /\ grammar' = new_start(grammar).g
    /\ g_call' = [Called("new_start", new_start(grammar).err,
                         IF new_start(grammar).err = "none" THEN <<nNewStart>> ELSE <<>>,
                         NoCall.new_grammar)
                    EXCEPT !.cached = grammar.has_new_start]
    /\ UNCHANGED <<k, pc, fkvars, query, vgvars, tbvars, pvars>>

\* grammar.split_long_terminals(): self.start is resolved for the new Grammar
\* (line 213), then self.new_start is accessed (line 214), then the loop copies
\* the rules, asserting that no right-hand side names the new start (line 224)
Grammar_split_long_terminals ==
    /\ IF ~can_resolve(grammar, grammar.start)
       THEN /\ grammar' = grammar
            /\ g_call' = Called("split_long_terminals", "KeyError", <<>>, NoCall.new_grammar)
       ELSE IF new_start(grammar).err # "none"
       THEN /\ grammar' = new_start(grammar).g
            /\ g_call' = Called("split_long_terminals", new_start(grammar).err, <<>>,
                                NoCall.new_grammar)
       ELSE IF \E r \in new_start(grammar).g.rules :
                  /\ r.lhs # nNewStart
                  /\ \E i \in 1..Len(r.rhs) : r.rhs[i] = nNewStart
       THEN /\ grammar' = new_start(grammar).g
            /\ g_call' = Called("split_long_terminals", "AssertionError", <<>>,
                                NoCall.new_grammar)
       ELSE /\ grammar' = new_start(grammar).g
            /\ g_call' = Called("split_long_terminals", "none", <<>>,
                                split_long_terminals(new_start(grammar).g))
    /\ UNCHANGED <<k, pc, fkvars, query, vgvars, tbvars, pvars>>

\* grammar = grammar.split_long_terminals(), the assignment: the caller goes on
\* with the grammar the call returned (as EarleyParserConfig.__init__ does)
Grammar_rebind ==
    /\ g_call.op = "split_long_terminals"
    /\ g_call.err = "none"
    /\ grammar' = g_call.new_grammar
    /\ g_call' = Called("rebind", "none", <<>>, NoCall.new_grammar)
    /\ UNCHANGED <<k, pc, fkvars, query, vgvars, tbvars, pvars>>

NextGrammar ==
    \/ Grammar_add_rule
    \/ Grammar_ensure_nonterminal
    \/ Grammar_new_start
    \/ Grammar_split_long_terminals
    \/ Grammar_rebind

SpecGrammar == InitGrammar /\ [][NextGrammar]_vars

\* C16: in every state of a Grammar, every nonterminal on the left-hand side or
\* in the right-hand side of any of its rules is registered in the nonterminal
\* map under its name.
C16_NonterminalsRegistered ==
    \A r \in grammar.rules : \A n \in get_nonterminals(r) : has_nonterminal(grammar, n.v)

\* the rules of g whose left-hand side is the augmented start
new_start_rules(g) == {r \in g.rules : r.lhs = nNewStart}

\* C17: the first access of new_start leaves exactly one rule whose lhs is the
\* augmented start S', with rhs [S]; every access after the first succeeds,
\* adds no rule (the grammar is as before) and returns the same nonterminal.
C17_NewStartOnce ==
    [][g_call'.op = "new_start" =>
         IF grammar.has_new_start
         THEN /\ g_call'.err = "none"
              /\ g_call'.value = <<nNewStart>>
              /\ grammar' = grammar
              /\ Rule(nNewStart, <<Nonterminal(grammar.start)>>) \in grammar.rules
         ELSE g_call'.err = "none" =>
                /\ g_call'.value = <<nNewStart>>
                /\ new_start_rules(grammar') = {Rule(nNewStart, <<Nonterminal(grammar.start)>>)}
                /\ grammar'.rules = grammar.rules \cup new_start_rules(grammar')]_vars

\* a later access of new_start has returned, on a grammar holding just its one
\* augmented rule next to the user's
C17_Witness ==
    /\ g_call.op = "new_start" /\ g_call.cached /\ g_call.err = "none"
    /\ Cardinality(new_start_rules(grammar)) = 1
    /\ Rule(nS, <<tAB, nS>>) \in grammar.rules

\* C18: when the reserved augmentation name is already registered in the user
\* grammar, requesting new_start (directly, or by split_long_terminals) fails
\* with an error and leaves the rules and the nonterminal map as they were.
C18_ReservedNameRefused ==
    [][(/\ g_call'.op \in {"new_start", "split_long_terminals"}
        /\ ~grammar.has_new_start
        /\ has_nonterminal(grammar, new_start_name))
       => /\ g_call'.err # "none"
          /\ grammar'.rules = grammar.rules
          /\ grammar'.nonterminals = grammar.nonterminals
          /\ new_start_rules(grammar') = new_start_rules(grammar)]_vars

\* new_start has been refused on a grammar that uses the reserved name
C18_Witness ==
    /\ g_call.op = "new_start" /\ g_call.err = "AssertionError"
    /\ ~grammar.has_new_start
    /\ has_nonterminal(grammar, new_start_name)
    /\ can_resolve(grammar, grammar.start)

\* C19: split_long_terminals() leaves the receiver's rule set and nonterminal
\* map exactly as they were, also when the receiver was not augmented yet.
C19_SplitPure ==
    [][g_call'.op = "split_long_terminals" =>
         /\ grammar'.rules = grammar.rules
         /\ grammar'.nonterminals = grammar.nonterminals]_vars

\* reference: the image of a right-hand side, built from its last symbol back
RefPieces(symbol) ==
    IF ~is_terminal(symbol) THEN <<symbol>>
    ELSE [i \in 1..Len(symbol.v) |-> StrTerminal(<<symbol.v[i]>>)]

RECURSIVE RefImage(_)
RefImage(rhs) ==
    IF Len(rhs) = 0 THEN <<>>
    ELSE RefImage(SubSeq(rhs, 1, Len(rhs) - 1)) \o RefPieces(rhs[Len(rhs)])

C12_PrepareTerminates == (pc = "new") ~> (pc = "firstk")

\* _prepare has returned for the grammars with a unit cycle, with direct and
\* with indirect recursion
C12_Witness ==
    /\ pc = "firstk"
    /\ ~query.asked
    /\ \/ GCycle.rules \subseteq grammar.rules
       \/ GSeminar.rules \subseteq grammar.rules
       \/ GIndirect.rules \subseteq grammar.rules
    /\ \A A \in registered(grammar) : A \in DOMAIN cache

\* the FIRST_k equations as _expand_sequence states them, over given sets F:
\* the sets of the symbols are summed from left to right, and a tuple that
\* reaches k tokens is cut and set aside
RECURSIVE EqSeqLoop(_, _, _, _, _)
EqSeqLoop(P, F, acc, seq, i) ==
    IF i > Len(seq) THEN acc.result \cup {Take(r, P.k) : r \in acc.cur_result}
    ELSE CHOOSE out \in
           {EqSeqLoop(P, F, acc1, seq, i + 1) : acc1 \in
              {expand_sequence_step(P, acc.result, acc.cur_result,
                                    IF is_terminal(seq[i]) THEN {<<get_token(seq[i])>>}
                                    ELSE IF seq[i] \in DOMAIN F THEN F[seq[i]] ELSE {})}} : TRUE

EqSeq(P, F, seq) == EqSeqLoop(P, F, [result |-> {}, cur_result |-> {<<>>}], seq, 1)

EqStep(P, F) ==
    [X \in DOMAIN F |-> F[X] \cup UNION {EqSeq(P, F, r.rhs) : r \in rules_by_lhs(P, X)}]

RECURSIVE EqFix(_, _)
EqFix(P, F) ==
    CHOOSE out \in {IF F1 = F THEN F ELSE EqFix(P, F1) : F1 \in {EqStep(P, F)}} : TRUE

\* their least fixpoint, reached from the empty sets
EqFirstSets(P) == EqFix(P, [X \in {r.lhs : r \in P.rules} |-> {}])

\* C13: when the constructor returns, whatever the order the nonterminals were
\* visited in, the set stored for every nonterminal A is the least fixpoint of
\* the FIRST_k equations, and expand_sequence(rhs) of every rule A -> rhs is a
\* subset of it: one more round adds no tuple.
C13_BudgetSufficient ==
    (pc = "firstk" /\ ~query.asked) =>
        \A A \in registered(grammar) :
            /\ A \in DOMAIN cache
            /\ A \in DOMAIN EqFirstSets(Params) => cache[A] = EqFirstSets(Params)[A]
            /\ \A r \in rules_by_lhs(Params, A) :
                  expand_sequence(Params, cache, r.rhs).res \subseteq cache[A]
            /\ expand_symbol(Params, cache, A, TRUE)[A] = cache[A]

\* the constructor has returned for a recursive grammar at k = 2 whose start
\* symbol has several tuples, which take more than one pass to appear
C13_Witness ==
    /\ pc = "firstk"
    /\ ~query.asked
    /\ k = 2
    /\ nS \in DOMAIN cache
    /\ Cardinality(cache[nS]) >= 3

\* the terminal tokens of the grammar
TerminalTokens(g) ==
    {get_token(r.rhs[i]) : <<r, i>> \in
       {<<r1, i1>> \in g.rules \X (1..4) : i1 <= Len(r1.rhs) /\ is_terminal(r1.rhs[i1])}}

RECURSIVE Pow(_, _)
Pow(n, e) == IF e = 0 THEN 1 ELSE n * Pow(n, e - 1)

RECURSIVE TuplesUpTo(_, _)
\* the number of tuples of at most e tokens out of n
TuplesUpTo(n, e) == IF e = 0 THEN 1 ELSE Pow(n, e) + TuplesUpTo(n, e - 1)

\* C14 (as claimed): for every nonterminal A, first_k[A] holds at most |T|^k
\* tuples, T being the terminal tokens of the grammar.
C14_AtMostTPowK ==
    \A A \in DOMAIN cache :
        ~is_terminal(A) => Cardinality(cache[A]) <= Pow(Cardinality(TerminalTokens(grammar)), k)

\* C14 (amended): for every nonterminal A, first_k[A] holds at most
\* |T|^0 + ... + |T|^k tuples, the number of token tuples of length at most k.
C14_AtMostTuplesUpToK ==
    \A A \in DOMAIN cache :
        ~is_terminal(A) =>
            Cardinality(cache[A]) <= TuplesUpTo(Cardinality(TerminalTokens(grammar)), k)

\* a saturated nonterminal holds more than |T|^k tuples: short ones count too
C14_Witness ==
    /\ pc = "firstk"
    /\ \E A \in DOMAIN cache :
          /\ ~is_terminal(A)
          /\ Cardinality(cache[A]) > Pow(Cardinality(TerminalTokens(grammar)), k)
          /\ Cardinality(TerminalTokens(grammar)) > 0

\* C15: during and after saturation every tuple stored for any symbol, and
\* every tuple first_k(seq, cont) returns for |cont| <= k, has at most k
\* tokens; and the set stored for a symbol only grows.
C15_TuplesShortSetsGrow ==
    [][/\ \A sym \in DOMAIN cache' : \A t \in cache'[sym] : Len(t) <= k
       /\ query'.asked => \A t \in query'.res : Len(t) <= k
       /\ \A sym \in DOMAIN cache : sym \in DOMAIN cache' /\ cache[sym] \subseteq cache'[sym]]_vars

\* first_k has answered at k = 2 with a full continuation behind a sequence
\* that has tuples shorter than k
C15_Witness ==
    /\ query.asked
    /\ k = 2
    /\ Len(query.cont) = 2
    /\ query.seq # <<>>
    /\ \E t \in query.res : Len(t) = 2 /\ t[2] = query.cont[1]
    /\ \E sym \in DOMAIN cache : Cardinality(cache[sym]) >= 3

\* ------------------------------------------------- Earley: termination
\* a parse() that has started runs on: the for loop, _step and its while loop
\* take every step they can
SpecEarleyLive ==
    /\ Init
    /\ [][Next]_vars
    /\ WF_vars(Earley_step)
    /\ WF_vars(Earley_process_state)
    /\ WF_vars(Earley_step_return)

Kernel(I, start_rule) ==
    {st \in I : st.rule_pos > 0 \/ st = State(start_rule, 0, <<>>)}

\* C27: every item set build() returns is closed (with an item whose dot is
\* before a nonterminal B it holds, for every rule of B and every lookahead in
\* first_k of what follows B and the item's own lookahead, the item of that
\* rule with the dot at the start) and holds nothing but its kernel items and
\* the items this rule requires.
C27_ItemSetsClosed ==
    pc = "vgk_done" =>
        \A I \in members(tables) \cup {root.values}
                   \cup UNION {{gotos[J][X].values : X \in DOMAIN gotos[J]} : J \in DOMAIN gotos} :
           /\ \A st \in I : RefPredicted(Params, cache, st) \subseteq I
           /\ I = RefClosure(Params, cache, Kernel(I, new_start_rule(grammar)))

\* build() has returned an item set in which an item brought by the closure
\* has itself brought items, under a lookahead that is not empty
C27_Witness ==
    /\ pc = "vgk_done"
    /\ \E I \in tables.values :
          \E st \in I \ Kernel(I, new_start_rule(grammar)) :
             /\ st.continuation # <<>>
             /\ RefPredicted(Params, cache, st) # {}
             /\ RefPredicted(Params, cache, st) \subseteq I

\* C28: the registry never holds an item set twice (as processed and as
\* pending), and when build() returns, every registered item set I has a gotos
\* entry for exactly the symbols that stand right after the dot of one of its
\* items; the entry for X has the items of the closure of I's items with the
\* dot moved over X, and an item set with these items is registered.
C28_RegistryAndGotos ==
    /\ tables.values \cap tables.new_values = {}
    /\ pc = "vgk_done" =>
          \A I \in members(tables) :
             /\ I \in DOMAIN gotos
             /\ DOMAIN gotos[I] = {get_next_item(st) : st \in {s1 \in I : has_next_item(s1)}}
             /\ \A X \in DOMAIN gotos[I] :
                   /\ gotos[I][X].values = RefGoto(Params, cache, I, X)
                   /\ gotos[I][X].values \in members(tables)

\* build() has returned a collection in which some item set is its own goto
\* (an equal set was registered already) and some item set has no goto at all
C28_Witness ==
    /\ pc = "vgk_done"
    /\ \E I \in tables.values : \E X \in DOMAIN gotos[I] :
          gotos[I][X].values = I /\ ~gotos[I][X].registered
    /\ \E I \in tables.values : DOMAIN gotos[I] = {}

\* ------------------------------------------------- the action tables built
ShiftDue(P, fcache, I, u) ==
    \E st \in I :
       /\ st.rule_pos < Len(st.rule.rhs)
       /\ is_terminal(st.rule.rhs[st.rule_pos + 1])
       /\ u \in first_k(P, fcache, Drop(st.rule.rhs, st.rule_pos), st.continuation)

AcceptDue(I, u, start_rule) ==
    u = <<>> /\ State(start_rule, Len(start_rule.rhs), <<>>) \in I

ReduceDue(I, u, r, start_rule) ==
    /\ State(r, Len(r.rhs), u) \in I
    /\ ~(r = start_rule /\ u = <<>>)

\* C29: after a build() that raised nothing, for the state of every item set I
\* and every lookahead u: actions[u] is Shift exactly when an item of I with the
\* dot before a terminal has u in first_k of the rest of its rule and its
\* lookahead, Reduce(r) exactly when I holds the completed item of r with
\* lookahead u other than the accept item, Accept exactly when u = () and I
\* holds the completed start item; otherwise u is no key.
C29_ActionsAsItemsDemand ==
    pc = "tables_done" =>
        /\ DOMAIN states = tables.values
        /\ \A I \in DOMAIN states :
              \A u \in DOMAIN states[I].actions
                         \cup UNION {ItemClaims(Params, cache, st) : st \in I} :
                 LET has == u \in DOMAIN states[I].actions
                     act == states[I].actions[u]
                 IN  /\ (has /\ act = Action_shift) <=> ShiftDue(Params, cache, I, u)
                     /\ (has /\ act = Action_accept) <=>
                           AcceptDue(I, u, new_start_rule(grammar))
                     /\ \A r \in grammar.rules :
                           (has /\ act = Action_reduce(r)) <=>
                              ReduceDue(I, u, r, new_start_rule(grammar))
                     /\ has => \/ act \in {Action_shift, Action_accept}
                               \/ \E r \in grammar.rules : act = Action_reduce(r)

\* a build() has ended without raising, and one of its states shifts under one
\* lookahead and reduces under another, and one of its states accepts
C29_Witness ==
    /\ pc = "tables_done"
    /\ \E I \in DOMAIN states : \E u, v \in DOMAIN states[I].actions :
          states[I].actions[u] = Action_shift /\ states[I].actions[v].tag = "reduce"
    /\ \E I \in DOMAIN states : \E u \in DOMAIN states[I].actions :
          states[I].actions[u] = Action_accept

\* C30 (as claimed): the Accept slot is never contested: whatever order the
\* items of an item set are visited in, build() never ends by the assertion
\* "Accept conflicts should be impossible".
C30_AcceptNeverContested ==
    err # "AssertionError: Accept conflicts should be impossible"

\* ------------------------------------------- what splitting leaves unchanged
\* reference: the ends of the derivations of rhs from `from` in the character
\* string w, a string terminal standing for its characters in order
RECURSIVE CharEnds(_, _, _, _)
CharEnds(F, w, rhs, from) ==
    IF rhs = <<>> THEN {from}
    ELSE LET X == Head(rhs)
             mids == IF X.kind # "nt"
                     THEN IF /\ from + Len(X.v) <= Len(w)
                             /\ \A i \in 1..Len(X.v) : w[from + i] = <<X.v[i]>>
                          THEN {from + Len(X.v)} ELSE {}
                     ELSE {j \in 0..Len(w) : <<X, from, j>> \in F}
         IN  UNION {CharEnds(F, w, Tail(rhs), m) : m \in mids}

RECURSIVE CharSpans(_, _, _)
CharSpans(rules, w, F) ==
    CHOOSE out \in {IF F1 = F THEN F ELSE CharSpans(rules, w, F1) :
                      F1 \in {F \cup UNION {{<<r.lhs, i, j>> : j \in CharEnds(F, w, r.rhs, i)} :
                                              <<r, i>> \in rules \X (0..Len(w))}}} : TRUE

CharDerives(g, w) == <<Nonterminal(g.start), 0, Len(w)>> \in CharSpans(g.rules, w, {})

\* the character language of G is that of the grammar a split of G returned
SplitSameLanguage ==
    (g_call.op = "split_long_terminals" /\ g_call.err = "none") =>
        \A w \in Inputs : CharDerives(grammar, w) <=> InLanguage(g_call.new_grammar, w)

\* C21 (as claimed): split_long_terminals preserves the character language (a
\* string w is derivable from G, a string terminal read as its characters, iff
\* its characters are derivable from split(G)), and splitting is idempotent:
\* split_long_terminals called on the grammar a split returned returns a
\* grammar with the same rules as its receiver, before and after the call.
C21_SplitPreservesAndIdempotent ==
    [][/\ SplitSameLanguage'
       /\ (g_call.op = "rebind" /\ g_call'.op = "split_long_terminals") =>
             /\ g_call'.err = "none"
             /\ g_call'.new_grammar.rules = grammar.rules
             /\ g_call'.new_grammar.rules = grammar'.rules]_vars

\* the same without the receiver after the call: the second split raises
\* nothing and returns the rules its receiver had
SplitIdempotentOnValues ==
    [][(g_call.op = "rebind" /\ g_call'.op = "split_long_terminals") =>
          /\ g_call'.err = "none"
          /\ g_call'.new_grammar.rules = grammar.rules]_vars

\* the same for the grammars whose start symbol has a rule or stands in one
SplitIdempotentWhereStartKept ==
    [][(/\ g_call.op = "rebind" /\ g_call'.op = "split_long_terminals"
        /\ can_resolve(grammar, grammar.start)) =>
          /\ g_call'.err = "none"
          /\ g_call'.new_grammar.rules = grammar.rules]_vars

\* --------------------------------------------------- the Earley chart
\* the items of a chart position, closed and pending (Table.__iter__)
table_items(tbl) == tbl.states \cup tbl.new_states

\* a chart position the parser has left: nothing pending, a later one exists
PositionClosed(i) ==
    i < Len(earley_tables) /\ ~has_new_states(earley_tables[i])

\* C25 (as claimed): a closed chart position T_i is closed under Complete: for
\* every completed item (A -> gamma ., j) in T_i and every item
\* (B -> alpha . A beta, m) in T_j, the item (B -> alpha A . beta, m) is in T_i.
\* This holds for j = i too, where A is completed by an empty derivation (the
\* item (A -> ., i) that Predict brings for an empty rule of A): an item of T_i
\* that expects such an A has its advanced item in T_i.
C25_ClosedUnderComplete ==
    \A i \in 1..Len(earley_tables) :
       PositionClosed(i) =>
          /\ \A c \in earley_tables[i].states :
                ~has_next_item(c) =>
                   \A p \in table_items(earley_tables[c.start_offset + 1]) :
                      (has_next_item(p) /\ get_next_item(p) = c.rule.lhs) =>
                         shifted(p) \in earley_tables[i].states
          /\ \A p \in earley_tables[i].states :
                (/\ has_next_item(p)
                 /\ \E r \in earley_config.rules : r.lhs = get_next_item(p) /\ r.rhs = <<>>) =>
                   shifted(p) \in earley_tables[i].states

\* the literal half of C25 alone: over the completed items a closed position
\* holds
ClosedUnderCompleteOfItemsHeld ==
    \A i \in 1..Len(earley_tables) :
       PositionClosed(i) =>
          \A c \in earley_tables[i].states :
             ~has_next_item(c) =>
                \A p \in table_items(earley_tables[c.start_offset + 1]) :
                   (has_next_item(p) /\ get_next_item(p) = c.rule.lhs) =>
                      shifted(p) \in earley_tables[i].states

\* no chart position ever holds a completed item
NoCompletedItemInChart ==
    \A i \in 1..Len(earley_tables) : \A c \in table_items(earley_tables[i]) : has_next_item(c)

\* C26 (as claimed): parse() on n tokens performs n token steps and then one
\* sentinel step that closes T_n without scanning, and returns true exactly
\* when the closed T_n holds the completed start item (S' -> S .) with start
\* offset 0; and no item of the S' rule with a start offset other than 0 is
\* ever in any chart position.
C26_StepsAndAcceptance ==
    /\ EarleyParsedOnce =>
          /\ Len(earley_tables) = Len(input) + 2
          /\ ~has_new_states(earley_tables[Len(earley_tables) - 1])
          /\ earley_result \in {"true", "false"}
          /\ earley_result = "true" <=>
                EarleyState(earley_config.start_rule, Len(earley_config.start_rule.rhs), 0)
                   \in earley_tables[Len(earley_tables) - 1].states
    /\ \A i \in 1..Len(earley_tables) : \A st \in table_items(earley_tables[i]) :
          st.rule = earley_config.start_rule => st.start_offset = 0

\* ------------------------------------------------ a second config and parser
\* LRParserConfig(grammar, "", k + 1) on the grammar a first config was built
\* without error from: a config object of its own (like the first, it is
\* constructed before the caller settles the tokens)
LRParserConfig2_init ==
    /\ pc = "tables_done"
    /\ ~config2.built
    /\ kind = "none"
    /\ \E nonterminals \in Perms(registered(grammar)) :
          LET P == FirstKParams(grammar, k + 1)
              res == tables_build(P, prepare(P, nonterminals), new_start_rule(grammar))
          IN  config2' = [built |-> TRUE, k |-> k + 1, root |-> res.root,
                          states |-> res.states, err |-> res.err]
    /\ UNCHANGED <<g_call, gvars, pc, fkvars, query, vgvars, tbvars, hvars, lrvars, evars,
                   fed, other, ret>>

\* the config the second parser holds: the first config's objects themselves
\* (which = "first") or those of the second config
config_of(which) ==
    IF which = "first" THEN [states |-> states, root |-> root, k |-> k]
    ELSE [states |-> config2.states, root |-> config2.root, k |-> config2.k]

\* LRParser(config): a second parser, on the first config or on the second
LRParser_init(which) ==
    /\ ~other.exists
    /\ IF which = "first" THEN pc = "tables_done"
       ELSE config2.built /\ config2.err = "none"
    /\ other' = [NoOther EXCEPT !.exists = TRUE, !.config = which]
    /\ UNCHANGED <<g_call, gvars, pc, fkvars, query, vgvars, tbvars, hvars, lrvars, evars,
                   fed, config2, ret>>

\* feed on the second parser, with a fresh iterable over the caller's tokens
Other_feed ==
    /\ other.exists
    /\ ~other.busy
    /\ kind # "none"
    /\ other' = [other EXCEPT
                   !.drv = lr_feed(@, config_of(other.config).root, config_of(other.config).k,
                                   Source(kind, input)),
                   !.fed = TRUE,
                   !.calls = 0,
                   !.given = <<kind, input>>,
                   !.refed = other.fed /\ other.given # <<kind, input>>]
    /\ UNCHANGED <<g_call, gvars, pc, fkvars, query, vgvars, tbvars, hvars, lrvars, evars,
                   fed, config2, ret>>

\* the first feed on the second parser
Other_feed_once == ~other.fed /\ Other_feed

\* parse on the second parser up to the call of _parse
Other_parse ==
    /\ other.exists
    /\ ~other.busy
    /\ other' = [other EXCEPT
                   !.busy = lr_is_initialized(other.drv.source),
                   !.drv.result = IF lr_is_initialized(other.drv.source) THEN "none"
                                  ELSE "RuntimeError: Parser is not initialized",
                   !.calls = Min(@ + 1, MaxCalls)]
    /\ UNCHANGED <<g_call, gvars, pc, fkvars, query, vgvars, tbvars, hvars, lrvars, evars,
                   fed, config2, ret>>

\* one turn of the loop of _parse in the second parser, at any moment
Other_step ==
    /\ other.busy
    /\ Len(other.drv.stack) < MaxStack
    /\ LET r == lr_parse_step(config_of(other.config).states, config_of(other.config).k,
                              other.drv)
       IN  /\ other' = [other EXCEPT !.drv = r.drv, !.busy = (r.drv.result = "none")]
           /\ IF other.config = "first"
              THEN states' = r.config /\ config2' = config2
              ELSE config2' = [config2 EXCEPT !.states = r.config] /\ states' = states
    /\ UNCHANGED <<g_call, gvars, pc, fkvars, query, vgvars, stack, items, actions, err,
                   hvars, lrvars, evars, fed, ret>>

\* the first parse() of the second parser after a feed() has ended
OtherParsedOnce == other.fed /\ other.calls = 1 /\ ~other.busy /\ other.drv.result # "none"

\* the LR(1) configs of the catalogue
InitLR12 == Init /\ k = 1

NextLR12 ==
    \/ caller_input
    \/ LRParserConfig_init
    \/ EarleyParserConfig_init
    \/ LR_feed
    \/ LR_parse
    \/ LR_reject
    \/ LR_accept
    \/ LR_shift
    \/ LR_reduce
    \/ LRParserConfig2_init
    \/ LRParser_init("second")
    \/ Other_feed_once
    \/ Other_parse
    \/ Other_step

\* an LR(1) and an LR(2) config of one grammar, a parser on each
SpecLR12 == InitLR12 /\ [][NextLR12]_vars

\* C23 (as claimed): when the LR(1) builder succeeds on a grammar, the LR(2)
\* builder succeeds on it too, and the k = 2 recognizer returns on every token
\* string what the k = 1 recognizer returns on it.
C23_LR2AgreesWithLR1 ==
    /\ config2.built => config2.err = "none"
    /\ (LRParsedOnce /\ OtherParsedOnce /\ fed.lr = other.given) =>
          other.drv.result = lr_result

\* the same for the token strings handed over as one-shot iterators
LR2AgreesWithLR1OnIterators ==
    /\ config2.built => config2.err = "none"
    /\ (LRParsedOnce /\ OtherParsedOnce /\ fed.lr = other.given /\ kind = "iter") =>
          other.drv.result = lr_result

\* ------------------------------------------ two parsers sharing one config
SharedConfigs ==
    {[g |-> GSeminar, k |-> 2], [g |-> GNested, k |-> 1], [g |-> GLR2, k |-> 2]}

InitShared == Init /\ [g |-> grammar, k |-> k] \in SharedConfigs

NextShared ==
    \/ Next
    \/ LRParser_init("first")
    \/ Other_feed_once
    \/ Other_parse
    \/ Other_step

\* a second LRParser on the first config, its steps at any moment between the
\* steps of the first LRParser and of the EarleyParser
SpecShared == InitShared /\ [][NextShared]_vars

\* C24: once a config is built, parsing never modifies it: no step of an LR
\* driver changes the actions or transitions of any LR state or the FIRST_k
\* cache, and no Earley step changes the config's rules; and two drivers
\* created from the same config, their steps interleaved in any way, each
\* return what a parser fed the same tokens returns when it runs alone.
C24_ConfigSharedSafely ==
    [][/\ pc = "tables_done" =>
             /\ states' = states /\ root' = root /\ cache' = cache
             /\ gotos' = gotos /\ tables' = tables /\ k' = k
       /\ earley_config.built => earley_config' = earley_config
       /\ (pc = "tables_done" /\ LRParsedOnce)' =>
             lr_result' = lr_alone(states, root, k, Source(fed.lr[1], fed.lr[2])')
       /\ OtherParsedOnce' =>
             other.drv.result' = lr_alone(states, root, k, Source(other.given[1], other.given[2])')
       /\ EarleyParsedOnce' =>
             earley_result' = earley_alone(earley_config.start_rule, fed.earley[2])']_vars

\* the parse() calls of the two LR parsers are both under way, each having
\* taken tokens from its stream and pushed states of the shared config, after
\* the Earley parser's parse() has ended
C24_Witness ==
    /\ busy = "lr" /\ other.busy
    /\ lr_consumed # <<>> /\ other.drv.source.stream.pos > 0
    /\ Len(lr_stack) > 1 /\ Len(other.drv.stack) > Len(lr_stack)
    /\ EarleyParsedOnce

\* ------------------------------------------------------- feeding again
RefeedConfigs == {[g |-> GNested, k |-> 1], [g |-> GSeminar, k |-> 2]}

\* the token sequences the caller hands over, one after the other
RefeedInputs == {<<>>, <<<<"a">>>>, <<<<"a">>, <<"b">>>>}

InitRefeed == Init /\ [g |-> grammar, k |-> k] \in RefeedConfigs

\* the caller turns to another token sequence, at any moment between calls
caller_again ==
    /\ busy = "none"
    /\ pc \in {"tables_done", "failed"}
    /\ earley_config.built
    /\ input' \in RefeedInputs
    /\ kind' \in {"iter", "list"}
    /\ <<kind', input'>> # <<kind, input>>
    /\ UNCHANGED <<g_call, xvars, gvars, pc, fkvars, query, vgvars, tbvars, busy, lrvars, evars>>

NextRefeed ==
    \/ caller_again
    \/ LRParserConfig_init
    \/ EarleyParserConfig_init
    \/ LRParser_init("first")
    \/ Other_feed
    \/ Other_parse
    \/ Other_step
    \/ Earley_feed
    \/ Earley_parse
    \/ Earley_step
    \/ Earley_process_state
    \/ Earley_step_return

\* an LRParser and an EarleyParser, each fed as often as the caller likes
SpecRefeed == InitRefeed /\ [][NextRefeed]_vars

\* C22: feed() replaces the input: after a feed the Earley chart is the single
\* initial position {(S' -> . S, 0)} and the LR stack is [(S', root state)]
\* with a fresh stream over the new tokens, whatever was fed or parsed before;
\* and the parse() that follows returns what a fresh parser fed the last
\* tokens alone returns.
C22_FeedReplaces ==
    /\ (other.fed /\ other.calls = 0) =>
          /\ other.drv.stack = <<[symbol |-> Nonterminal(new_start_name), state |-> root.values]>>
          /\ other.drv.source =
                [present |-> TRUE,
                 stream |-> PeekableStream_init(Source(other.given[1], other.given[2]),
                                                k, eof_token)]
    /\ (earley_fed /\ earley_calls = 0) =>
          /\ earley_tables = <<EarleyTable_initial(earley_config.start_rule)>>
          /\ earley_source = [present |-> TRUE, source |-> Source(fed.earley[1], fed.earley[2])]
    /\ OtherParsedOnce =>
          other.drv.result = lr_alone(states, root, k, Source(other.given[1], other.given[2]))
    /\ EarleyParsedOnce =>
          earley_result = earley_alone(earley_config.start_rule, fed.earley[2])

\* the LR parser, fed one token sequence and then another, has accepted the
\* second, and the Earley parser has been fed again after a parse that left
\* its chart with more than the initial position
C22_Witness ==
    /\ other.refed /\ OtherParsedOnce /\ other.drv.result = "true"
    /\ earley_fed /\ earley_calls = 0 /\ earley_result = "none"
    /\ fed.earley # other.given

\* ---------------------------------------- the kind of conflict reported
\* a shift and two reduces on one lookahead:  S -> A a | B a | b a ;  A -> b ;  B -> b
GShiftReduceReduce ==
    Grammar({Rule(nS, <<nA, tA>>), Rule(nS, <<nB, tA>>), Rule(nS, <<tB, tA>>),
             Rule(nA, <<tB>>), Rule(nB, <<tB>>)}, <<"S">>)

\* the requests whose construction ends in _build_actions raising, and one
\* whose construction succeeds
ConflictConfigs ==
    {[g |-> GNested, k |-> 1], [g |-> GCycle, k |-> 1], [g |-> GCycleShift, k |-> 1], [g |-> GReduceReduce, k |-> 1],
     [g |-> GLR2, k |-> 1], [g |-> GShiftReduceReduce, k |-> 1]}

InitConflicts == InitConfigOf(ConflictConfigs)

SpecConflicts == InitConflicts /\ [][NextTables]_vars

\* the lookaheads on which visiting `state` next finds actions[...] taken
Collisions(P, fcache, acts, state) ==
    IF state.rule_pos < Len(state.rule.rhs)
    THEN {c \in ItemClaims(P, fcache, state) : c \in DOMAIN acts /\ acts[c].tag # "shift"}
    ELSE {c \in ItemClaims(P, fcache, state) : c \in DOMAIN acts}

\* the conflict the colliding actions on lookahead u amount to in item set I
ConflictKind(P, fcache, I, u) ==
    IF \E st \in I : ItemAction(st) = "shift" /\ u \in ItemClaims(P, fcache, st)
    THEN "LRConflict: Shift-reduce conflict"
    ELSE "LRConflict: Reduce-reduce conflict"

\* C31 (as claimed): whichever item of an item set is visited when a lookahead
\* turns out to be taken, the builder reports a shift-reduce conflict if a shift
\* item and a completed item of the set claim that lookahead, and a
\* reduce-reduce conflict if only completed items claim it.
C31_ConflictKindByActions ==
    pc = "actions" =>
        \A state \in items :
           \A u \in Collisions(Params, cache, actions, state) :
              build_actions_step(Params, cache, actions, state).err =
                 ConflictKind(Params, cache, stack[Len(stack)].vgk.values, u)

\* what does hold: the report names a shift exactly when the action stored or
\* the item visited is a shift, and is an LRConflict unless the item visited
\* is the accept item
ConflictKindOfStoredAndVisited ==
    pc = "actions" =>
        \A state \in items :
           \A u \in Collisions(Params, cache, actions, state) :
              build_actions_step(Params, cache, actions, state).err =
                 IF ItemAction(state) = "accept"
                 THEN "AssertionError: Accept conflicts should be impossible"
                 ELSE IF ItemAction(state) = "shift" \/ actions[u].tag = "shift"
                 THEN "LRConflict: Shift-reduce conflict"
                 ELSE "LRConflict: Reduce-reduce conflict"

\* ------------------------------------------- transitions by raw token
\* C32: in every LR state of a finished build each transition on a terminal X
\* is also stored under the raw token X.get_token(), with the same target; and
\* whenever the driver is about to follow a Shift action, the state on top of
\* the stack has a transition for the token that next() hands out.
C32_ShiftFindsTransition ==
    /\ pc = "tables_done" =>
          \A I \in DOMAIN states : \A X \in DOMAIN states[I].transitions :
             (X.kind # "token" /\ is_terminal(X)) =>
                /\ TokenKey(get_token(X)) \in DOMAIN states[I].transitions
                /\ states[I].transitions[TokenKey(get_token(X))] = states[I].transitions[X]
    /\ (busy = "lr" /\ lr_stack # <<>> /\ preview \in DOMAIN cur_state.actions
          /\ cur_state.actions[preview].tag = "shift") =>
          TokenKey(next(lr_source.stream, eof_token).result) \in DOMAIN cur_state.transitions
    /\ lr_result # "KeyError"

\* the driver has shifted two tokens, the second in a state other than the
\* root's, and is about to shift a third
C32_Witness ==
    /\ busy = "lr"
    /\ Len(lr_consumed) >= 2
    /\ lr_stack # <<>>
    /\ lr_stack[Len(lr_stack)].symbol = TokenKey(lr_consumed[Len(lr_consumed)])
    /\ preview \in DOMAIN cur_state.actions
    /\ cur_state.actions[preview].tag = "shift"
    /\ \E X \in DOMAIN cur_state.transitions :
          X.kind # "token" /\ is_terminal(X) /\ get_token(X) = preview[1]

\* ------------------------------------------- the walk of the GOTO graph
\* the steps of LRTablesBuilder._process, from build's call of it to its return
process_steps ==
    \/ tables_build_start
    \/ state_for_known
    \/ build_actions_start
    \/ build_actions_item
    \/ build_actions_done
    \/ process_child
    \/ process_return

\* an item set reached over two paths, with gotos of its own:
\* S -> a N | b N ;  N -> a N | ""
GDiamond ==
    Grammar({Rule(nS, <<tA, nN>>), Rule(nS, <<tB, nN>>), Rule(nN, <<tA, nN>>), Rule(nN, <<>>)},
            <<"S">>)

\* the requests whose GOTO graph is walked to the end under every order of the
\* items and of the gotos entries
WalkConfigs ==
    (Configs \ {[g |-> GSeminar, k |-> 2], [g |-> GBrackets, k |-> 1],
                [g |-> GUnproductive, k |-> 2]})
       \cup {[g |-> GDiamond, k |-> 1]}

InitWalk == InitConfigOf(WalkConfigs)

\* _process runs on its own: every step that can be taken is taken
SpecTablesLive == InitWalk /\ [][NextTables]_vars /\ WF_vars(process_steps)

\* the symbols an LRState has transitions on (the raw-token entries aside)
transition_symbols(lr_state) == {X \in DOMAIN lr_state.transitions : X.kind # "token"}

\* C33: build() terminates, cyclic GOTO graphs included, and when it returns
\* there is one LR state for each item set of the canonical collection and for
\* nothing else; each has a transition for exactly the symbols its item set
\* has a goto on, and the target is the LR state of the goto's item set.
C33_BuildTerminatesOneStatePerSet ==
    /\ (pc = "vgk_done") ~> (pc \in {"tables_done", "failed"})
    /\ [](pc = "tables_done" =>
            /\ DOMAIN states = RefCollection(Params, cache, new_start_rule(grammar))
            /\ \A I \in DOMAIN states :
                  /\ transition_symbols(states[I]) = RefSymbols(I)
                  /\ \A X \in RefSymbols(I) :
                        /\ states[I].transitions[X] = RefGoto(Params, cache, I, X)
                        /\ states[I].transitions[X] \in DOMAIN states)

\* build() has returned LR states of which one leads to itself and is also the
\* target of another state's transition, over an unregistered copy of its item
\* set, and has transitions of its own to other states
C33_Witness ==
    /\ pc = "tables_done"
    /\ \E I, J \in DOMAIN states : \E X \in DOMAIN gotos[I] : \E Y \in DOMAIN gotos[J] :
          /\ I # J
          /\ gotos[J][Y].values = J /\ ~gotos[J][Y].registered
          /\ gotos[I][X].values = J /\ ~gotos[I][X].registered
          /\ states[I].transitions[X] = J /\ states[J].transitions[Y] = J
          /\ \E Z \in transition_symbols(states[J]) : states[J].transitions[Z] # J

\* ------------------------------------------------ the driver's loop turns
\* what a turn of the loop of _parse is to do, by the action stored for the
\* lookahead peek(k) without its trailing sentinels; `t` is the token a Shift
\* is to consume
StepEffect(t) ==
    LET s == cur_state
        la == strip_eof(peek(lr_source.stream, k), eof_token)
    IN  IF la \notin DOMAIN s.actions
        THEN /\ lr_result' = "false" /\ busy' = "none"
             /\ lr_consumed' = lr_consumed /\ lr_stack' = lr_stack
             /\ lr_source'.stream = lr_source.stream
        ELSE IF s.actions[la].tag = "accept"
        THEN /\ lr_result' = "true" /\ busy' = "none"
             /\ lr_consumed' = lr_consumed /\ lr_stack' = lr_stack
             /\ lr_source'.stream = lr_source.stream
        ELSE IF s.actions[la].tag = "shift"
        THEN /\ lr_consumed' = Append(lr_consumed, t)
             /\ lr_source'.stream.pos = lr_source.stream.pos + 1
             /\ TokenKey(t) \in DOMAIN s.transitions
             /\ lr_stack' = Append(lr_stack, [symbol |-> TokenKey(t),
                                              state |-> s.transitions[TokenKey(t)]])
             /\ lr_result' = lr_result /\ busy' = busy
        ELSE LET rule == s.actions[la].rule
                 left == Len(lr_stack) - Len(rule.rhs)
             IN  /\ lr_consumed' = lr_consumed
                 /\ lr_source' = lr_source
                 /\ left >= 1
                 /\ rule.lhs \in DOMAIN states[lr_stack[left].state].transitions
                 /\ lr_stack' = Append(SubSeq(lr_stack, 1, left),
                                       [symbol |-> rule.lhs,
                                        state |-> states[lr_stack[left].state].transitions[rule.lhs]])
                 /\ lr_result' = lr_result /\ busy' = busy

\* the token of the input that follows the tokens consumed so far
NextInputToken ==
    IF Len(lr_consumed) < Len(input) THEN input[Len(lr_consumed) + 1] ELSE eof_token

\* C34 (as claimed): every turn of the driver's loop has the effect of its
\* action and no other: Shift consumes the one input token t that follows the
\* tokens consumed so far and pushes (t, s.transitions[t]); Reduce(A -> gamma)
\* consumes nothing, pops |gamma| entries and pushes (A, s'.transitions[A]) for
\* the state s' then on top; Accept and a missing action end the parse and
\* consume nothing; the action is the one stored for peek(k) without its
\* trailing sentinels.
C34_StepEffects ==
    [][(busy = "lr" /\ lr_stack # <<>>) => StepEffect(NextInputToken)]_<<lrvars, busy>>

\* the same over one-shot iterators only
StepEffectsOnIterators ==
    [][(busy = "lr" /\ lr_stack # <<>> /\ kind = "iter") =>
          StepEffect(NextInputToken)]_<<lrvars, busy>>

\* the same for the token the stream hands out, whatever the source
StepEffectsOnStreamTokens ==
    [][(busy = "lr" /\ lr_stack # <<>>) =>
          StepEffect(peek(lr_source.stream, 1)[1])]_<<lrvars, busy>>

\* ------------------------------------------- the PeekableStream on its own
\* A stream constructed over a token sequence with a limit of its own, and
\* next, peek and tell called on it in any order.
MaxLimit == 3

\* the calls of next() followed per stream
MaxNext == MaxLen + MaxLimit + 1

StreamRequests == {[g |-> Grammar({}, <<"S">>), k |-> limit] : limit \in 1..MaxLimit}

InitStream == InitConfigOf(StreamRequests)

\* PeekableStream(source, limit, sentinel) over a one-shot iterator or a list
Stream_init ==
    /\ ~lr_source.present
    /\ \E data \in Inputs : \E how \in {"iter", "list"} :
          /\ input' = data
          /\ kind' = how
          /\ lr_source' = [present |-> TRUE,
                           stream |-> PeekableStream_init(Source(how, data), k, eof_token)]
    /\ ret' = [op |-> "__init__", arg |-> <<>>, value |-> <<>>]
    /\ UNCHANGED <<g_call, fed, config2, other, gvars, pc, fkvars, query, vgvars, tbvars, busy,
                   lr_stack, lr_result, lr_consumed, lr_fed, lr_calls, evars>>

\* stream.next()
Stream_next ==
    /\ lr_source.present
    /\ Len(lr_consumed) < MaxNext
    /\ LET r == next(lr_source.stream, eof_token)
       IN  /\ lr_source' = [lr_source EXCEPT !.stream = r.stream]
           /\ lr_consumed' = Append(lr_consumed, r.result)
           /\ ret' = [op |-> "next", arg |-> <<>>, value |-> r.result]
    /\ UNCHANGED <<g_call, fed, config2, other, gvars, pc, fkvars, query, vgvars, tbvars, hvars,
                   lr_stack, lr_result, lr_fed, lr_calls, evars>>

\* stream.peek(cnt): ValueError beyond the limit, else the first cnt buffered
\* tokens; no attribute of the stream is assigned
Stream_peek ==
    /\ lr_source.present
    /\ \E cnt \in 0..(k + 1) :
          ret' = [op |-> "peek", arg |-> cnt,
                  value |-> IF cnt > lr_source.stream.limit
                            THEN "ValueError: Cannot peek more than the limit"
                            ELSE peek(lr_source.stream, cnt)]
    /\ UNCHANGED <<g_call, fed, config2, other, gvars, pc, fkvars, query, vgvars, tbvars, hvars,
                   lrvars, evars>>

\* stream.tell()
Stream_tell ==
    /\ lr_source.present
    /\ ret' = [op |-> "tell", arg |-> <<>>, value |-> lr_source.stream.pos]
    /\ UNCHANGED <<g_call, fed, config2, other, gvars, pc, fkvars, query, vgvars, tbvars, hvars,
                   lrvars, evars>>

NextStream == Stream_init \/ Stream_next \/ Stream_peek \/ Stream_tell

SpecStream == InitStream /\ [][NextStream]_vars

\* the tokens from position m (0-based) on, followed by sentinels, cnt in all
InputFrom(m, cnt) ==
    [i \in 1..cnt |-> IF m + i <= Len(input) THEN input[m + i] ELSE eof_token]

\* C35: over a one-shot source of n tokens and after m calls of next(),
\* peek(k) returns exactly k tokens, the input's tokens at positions m ..
\* min(m+k, n)-1 followed by sentinels (and peek(cnt) the first cnt of them);
\* peek changes nothing; next() has returned the input's tokens in order and
\* sentinels after them; tell() returns m.
C35_PeekShowsNextK ==
    /\ []((lr_source.present /\ kind = "iter") =>
            LET m == Len(lr_consumed)
            IN  /\ peek(lr_source.stream, k) = InputFrom(m, k)
                /\ lr_consumed = InputFrom(0, m)
                /\ lr_source.stream.pos = m
                /\ ret.op = "peek" /\ ret.arg <= k => ret.value = InputFrom(m, ret.arg)
                /\ ret.op = "tell" => ret.value = m
                /\ ret.op = "next" => ret.value = InputFrom(m - 1, 1)[1])
    /\ [][ret'.op = "peek" => lr_source' = lr_source /\ lr_consumed' = lr_consumed]_vars

\* next() has been called beyond the end of a one-shot source that is longer
\* than the limit, and peek(limit) has just returned sentinels only
C35_Witness ==
    /\ lr_source.present
    /\ kind = "iter"
    /\ k = 2
    /\ Len(input) = 3
    /\ Len(lr_consumed) = 4
    /\ ret = [op |-> "peek", arg |-> 2, value |-> <<eof_token, eof_token>>]

\* ------------------------------------------ the worklist containers alone
\* An UpdateableSet as constructed, and an Earley Table as Table.initial makes
\* it, with add and process called in any order and with any element.
WorkRule == Rule(nS, <<tA, nS>>)

\* the elements offered to the UpdateableSet (LR items) and to the Table
\* (Earley items)
WorkItems == {State(WorkRule, p, <<>>) : p \in 0..2}

WorkStates == {EarleyState(WorkRule, p, 0) : p \in 0..2}

InitWorklist == InitConfigOf({[g |-> Grammar({WorkRule}, <<"S">>), k |-> 1]})

\* UpdateableSet.add(value)
UpdateableSet_add ==
    /\ \E value \in WorkItems :
          /\ table' = add(table, value)
          /\ ret' = [op |-> "add", arg |-> <<"UpdateableSet", value>>, value |-> <<>>]
    /\ UNCHANGED <<g_call, fed, config2, other, gvars, pc, fkvars, query,
                   tables, gotos, root, cur, pending, ctx, tbvars, hvars, lrvars, evars>>

\* UpdateableSet.process(): set.pop() yields any pending element
UpdateableSet_process ==
    /\ \E state \in table.new_values :
          /\ table' = process(table, state)
          /\ ret' = [op |-> "process", arg |-> <<"UpdateableSet">>, value |-> state]
    /\ UNCHANGED <<g_call, fed, config2, other, gvars, pc, fkvars, query,
                   tables, gotos, root, cur, pending, ctx, tbvars, hvars, lrvars, evars>>

\* Table.initial(start_rule) of the Earley parser
Table_initial_call ==
    /\ earley_tables = <<>>
    /\ earley_tables' = <<EarleyTable_initial(WorkRule)>>
    /\ ret' = [op |-> "initial", arg |-> <<"Table">>, value |-> <<>>]
    /\ UNCHANGED <<g_call, fed, config2, other, gvars, pc, fkvars, query, vgvars, tbvars, hvars,
                   lrvars, earley_config, earley_source, earley_iter, earley_tok,
                   earley_phase, earley_result, earley_fed, earley_calls>>

\* Table.add_state(state)
Table_add_state ==
    /\ earley_tables # <<>>
    /\ \E state \in WorkStates :
          /\ earley_tables' = <<add_state(earley_tables[1], state)>>
          /\ ret' = [op |-> "add", arg |-> <<"Table", state>>, value |-> <<>>]
    /\ UNCHANGED <<g_call, fed, config2, other, gvars, pc, fkvars, query, vgvars, tbvars, hvars,
                   lrvars, earley_config, earley_source, earley_iter, earley_tok,
                   earley_phase, earley_result, earley_fed, earley_calls>>

\* Table.process_state(): set.pop() yields any pending item
Table_process_state ==
    /\ earley_tables # <<>>
    /\ \E state \in earley_tables[1].new_states :
          /\ earley_tables' = <<process_state(earley_tables[1], state)>>
          /\ ret' = [op |-> "process", arg |-> <<"Table">>, value |-> state]
    /\ UNCHANGED <<g_call, fed, config2, other, gvars, pc, fkvars, query, vgvars, tbvars, hvars,
                   lrvars, earley_config, earley_source, earley_iter, earley_tok,
                   earley_phase, earley_result, earley_fed, earley_calls>>

NextWorklist ==
    \/ UpdateableSet_add
    \/ UpdateableSet_process
    \/ Table_initial_call
    \/ Table_add_state
    \/ Table_process_state

SpecWorklist == InitWorklist /\ [][NextWorklist]_vars

\* the closed and the pending part of either container, as a pair
WorkParts(which) ==
    IF which = "UpdateableSet" THEN <<table.values, table.new_values>>
    ELSE IF earley_tables = <<>> THEN <<{}, {}>>
    ELSE <<earley_tables[1].states, earley_tables[1].new_states>>

\* C36: in either container the closed and the pending part stay disjoint;
\* add(x) changes nothing when x is closed or pending already and otherwise
\* makes x pending; process takes exactly one pending element, makes it closed
\* and returns it; so process never returns an element that is closed, that
\* is, one it has returned before.
C36_WorklistDisjoint ==
    /\ [](\A which \in {"UpdateableSet", "Table"} :
             WorkParts(which)[1] \cap WorkParts(which)[2] = {})
    /\ [][\A which \in {"UpdateableSet", "Table"} :
            /\ (ret'.op = "add" /\ ret'.arg[1] = which) =>
                  /\ WorkParts(which)[1]' = WorkParts(which)[1]
                  /\ WorkParts(which)[2]' =
                        WorkParts(which)[2] \cup ({ret'.arg[2]} \ WorkParts(which)[1])
            /\ (ret'.op = "process" /\ ret'.arg[1] = which) =>
                  /\ ret'.value \in WorkParts(which)[2]
                  /\ ret'.value \notin WorkParts(which)[1]
                  /\ WorkParts(which)[1]' = WorkParts(which)[1] \cup {ret'.value}
                  /\ WorkParts(which)[2]' = WorkParts(which)[2] \ {ret'.value}
            /\ (ret'.op \in {"add", "process"} /\ ret'.arg[1] # which) =>
                  WorkParts(which)' = WorkParts(which)]_vars

\* an element closed in the UpdateableSet has just been added again while
\* another is pending, and the Table has closed its initial item and one more
C36_Witness ==
    /\ ret.op = "add"
    /\ ret.arg[1] = "UpdateableSet"
    /\ ret.arg[2] \in table.values
    /\ table.new_values # {}
    /\ earley_tables # <<>>
    /\ Cardinality(earley_tables[1].states) >= 2
    /\ EarleyState(WorkRule, 0, 0) \in earley_tables[1].states

\* ------------------------------ split_long_terminals and other terminals
\* terminals of a custom Terminal subclass, with an integer for a value
tSeven == Terminal(7)
tNine == Terminal(9)

\* S -> "ab" 7 S | 7 | 9 "a" 7 | N "" ;  N -> (nothing)
CustomRulePool ==
    {Rule(nS, <<tAB, tSeven, nS>>), Rule(nS, <<tSeven>>), Rule(nS, <<tNine, tA, tSeven>>),
     Rule(nS, <<nN, tEmpty>>), Rule(nN, <<>>)}

InitSplitCustom == InitGrammarOf(CustomRulePool)

SpecSplitCustom == InitSplitCustom /\ [][NextGrammar]_vars

\* reference: the image of a right-hand side in which only the string
\* terminals are replaced by their characters
RefPiecesOfStrings(symbol) ==
    IF symbol.kind = "str" THEN [i \in 1..Len(symbol.v) |-> StrTerminal(<<symbol.v[i]>>)]
    ELSE <<symbol>>

RECURSIVE RefImageOfStrings(_)
RefImageOfStrings(rhs) ==
    IF Len(rhs) = 0 THEN <<>>
    ELSE RefImageOfStrings(SubSeq(rhs, 1, Len(rhs) - 1)) \o RefPiecesOfStrings(rhs[Len(rhs)])

\* the terminals of a right-hand side that are no StrTerminal, in order
RECURSIVE OtherTerminals(_)
OtherTerminals(rhs) ==
    IF rhs = <<>> THEN <<>>
    ELSE (IF is_terminal(Head(rhs)) /\ Head(rhs).kind # "str" THEN <<Head(rhs)>> ELSE <<>>)
            \o OtherTerminals(Tail(rhs))

\* C37 (as claimed): split_long_terminals touches string terminals only: the
\* rule of the new grammar that corresponds to a rule of the receiver has its
\* nonterminals and its terminals of other classes unchanged and in place,
\* between the characters of the strings.
C37_OtherTerminalsKept ==
    (g_call.op = "split_long_terminals" /\ g_call.err = "none") =>
        /\ g_call.new_grammar.rules =
             {Rule(r.lhs, RefImageOfStrings(r.rhs)) :
                r \in grammar.rules \ new_start_rules(grammar)}
        /\ \A r \in grammar.rules \ new_start_rules(grammar) :
              \E r2 \in g_call.new_grammar.rules :
                 r2.lhs = r.lhs /\ OtherTerminals(r2.rhs) = OtherTerminals(r.rhs)

\* what does hold: no rule of the new grammar has a terminal that is not a
\* one-character StrTerminal
SplitLeavesStringsOnly ==
    (g_call.op = "split_long_terminals" /\ g_call.err = "none") =>
        \A r \in g_call.new_grammar.rules : OtherTerminals(r.rhs) = <<>>

\* ------------------------------------------------ the driver's stack
\* C38: on the tables of a successful build and for every input fed, the stack
\* is never empty while _parse runs, its bottom entry is always (S', root
\* state), every state on it is a state of the tables, a Reduce(A -> gamma)
\* about to be made leaves the bottom entry in place and uncovers a state that
\* has a transition on A, and parse() ends neither with the assertion after
\* the loop nor with an IndexError or KeyError.
C38_StackNeverUnderflows ==
    /\ lr_fed =>
          /\ lr_stack # <<>>
          /\ lr_stack[1] = [symbol |-> Nonterminal(new_start_name), state |-> root.values]
          /\ \A i \in 1..Len(lr_stack) : lr_stack[i].state \in DOMAIN states
    /\ (busy = "lr" /\ preview \in DOMAIN cur_state.actions
          /\ cur_state.actions[preview].tag = "reduce") =>
          LET rule == cur_state.actions[preview].rule
              left == Len(lr_stack) - Len(rule.rhs)
          IN  /\ left >= 1
              /\ rule.lhs \in DOMAIN states[lr_stack[left].state].transitions
    /\ lr_result \notin {"AssertionError: Shouldn't be reachable", "IndexError", "KeyError"}

\* a Reduce of a rule with a right-hand side of three or more symbols is about
\* to pop everything above the bottom entry
C38_Witness ==
    /\ busy = "lr"
    /\ preview \in DOMAIN cur_state.actions
    /\ cur_state.actions[preview].tag = "reduce"
    /\ Len(cur_state.actions[preview].rule.rhs) >= 3
    /\ Len(lr_stack) - Len(cur_state.actions[preview].rule.rhs) = 1

\* ------------------------------------------------ the driver: termination
\* a parse() of the LRParser that has started runs on: every turn of the loop
\* that can be taken is taken
SpecLRLive ==
    /\ Init
    /\ [][Next]_vars
    /\ WF_vars(LR_shift)
    /\ WF_vars(LR_reduce)
    /\ WF_vars(LR_accept)
    /\ WF_vars(LR_reject)

\* C39: on the tables of a successful build and a token sequence handed over
\* as a one-shot iterator, a parse() that has started ends (with Accept or a
\* missing action) after finitely many turns, no run of Reduces goes on for
\* ever, and the Shifts made are never more than the tokens of the input.
C39_DriverTerminates ==
    /\ (busy = "lr" /\ kind = "iter") ~> (busy # "lr" /\ lr_result \in {"true", "false"})
    /\ []((lr_fed /\ kind = "iter") =>
            /\ Len(lr_consumed) <= Len(input)
            /\ Len(lr_stack) < MaxStack)

\* parse() has returned True for three tokens from an iterator, all shifted,
\* on tables that also reduce by an empty rule
C39_Witness ==
    /\ kind = "iter"
    /\ busy = "none"
    /\ lr_result = "true"
    /\ Len(input) = 3
    /\ lr_consumed = input
    /\ \E I \in DOMAIN states : \E u \in DOMAIN states[I].actions :
          states[I].actions[u].tag = "reduce" /\ states[I].actions[u].rule.rhs = <<>>


\* ------------------------------------------- parse() and the feed it uses up
NotInitialized == "RuntimeError: Parser is not initialized"

\* the last parse() of the LRParser returned True or False
LRVerdict == busy # "lr" /\ lr_result \in {"true", "false"}

\* the last parse() of the EarleyParser returned True or False
EarleyVerdict == busy # "earley" /\ earley_result \in {"true", "false"}

\* with a verdict returned, the LRParser starts no parse until it is fed: the
\* only results that can follow are the "not initialized" error of a further
\* parse() or the blank left by a feed()
LRVerdictThenParseFails ==
    LRVerdict =>
       /\ busy' # "lr"
       /\ lr_result' \in {lr_result, NotInitialized, "none"}
       /\ lr_result' = "none" => lr_source'.present /\ lr_calls' = 0

\* the same for the EarleyParser, and once it has raised the error it goes on
\* raising it until it is fed
EarleyVerdictThenParseFails ==
    (EarleyVerdict \/ (busy # "earley" /\ earley_result = NotInitialized /\ earley_fed)) =>
       /\ busy' # "earley"
       /\ earley_result' \in {earley_result, NotInitialized, "none"}
       /\ earley_result' = "none" => earley_source'.present /\ earley_calls' = 0

\* parse() would get past the first item it takes up: _step pops a pending item
\* of position 0, and line 146 raises for an item with a symbol after its dot
EarleyFirstItemPasses ==
    \A state \in earley_tables[1].new_states : ~has_next_item(state)

\* C40 (as claimed): a parse() that has returned a verdict has used up the feed,
\* on an LRParser and on an EarleyParser: _source is gone, a further parse()
\* without a feed() raises "Parser is not initialized" and starts nothing, and
\* a new feed() leaves the parser such that the next parse() gives a verdict
\* again (for the EarleyParser: such that it does not raise on its first item).
C40_ParseConsumesFeed ==
    /\ [](LRVerdict => ~lr_source.present)
    /\ [](EarleyVerdict => ~earley_source.present)
    /\ [][LRVerdictThenParseFails]_vars
    /\ [][EarleyVerdictThenParseFails]_vars
    /\ [](LRParsedOnce => lr_result \in {"true", "false"})
    /\ [][(EarleyVerdict /\ earley_source'.present) => EarleyFirstItemPasses']_vars

\* what holds of C40: all of it on the LRParser; on the EarleyParser the verdict
\* uses up the feed and a further parse() fails, and after a new feed() the
\* next parse() is started and does not fail for want of a feed
ParseConsumesFeedButEarleyRaises ==
    /\ [](LRVerdict => ~lr_source.present)
    /\ [](EarleyVerdict => ~earley_source.present)
    /\ [][LRVerdictThenParseFails]_vars
    /\ [][EarleyVerdictThenParseFails]_vars
    /\ [](LRVerdict => [](LRParsedOnce => lr_result \in {"true", "false"}))
    /\ [](EarleyVerdict => [](EarleyParsedOnce => earley_result # NotInitialized))
    /\ [][(lr_source.present /\ busy = "none" /\ lr_calls' # lr_calls) => busy' = "lr"]_vars

\* fed anew after a verdict, the EarleyParser ends the next parse() as it ended
\* the first: by the AttributeError, the feed still in place
EarleyRaisesAfterNewFeed ==
    /\ [](EarleyVerdict =>
            [](EarleyParsedOnce =>
                  /\ earley_result = "AttributeError: no attribute 'isTerminal'"
                  /\ earley_source.present))
    /\ [][(EarleyVerdict /\ earley_source'.present) => ~EarleyFirstItemPasses']_vars

\* no parse() of the EarleyParser that follows a feed() directly returns a
\* verdict: its verdicts come from a parse() repeated after the AttributeError
EarleyVerdictOnlyOnRepeat == EarleyVerdict => earley_calls >= 2

\* both parsers have returned a verdict and then raised the error
BothFailedAfterVerdict ==
    /\ lr_fed /\ busy = "none" /\ lr_calls >= 2 /\ lr_result = NotInitialized
    /\ earley_fed /\ earley_calls >= 2 /\ earley_result = NotInitialized

====
